---- MODULE Spec2Model ----
(***************************************************************************)
(* Verification model of the unified image processing engine of            *)
(* photo-metadata-overlay (src-tauri/src/unified_engine.rs) and of the     *)
(* parts of the render pipeline (image_processing.rs) it calls.            *)
(*                                                                         *)
(* Conventions.  Option<T> is a sequence of length 0 (None) or 1 (Some).   *)
(* A byte vector is a tuple; Vec::new() is the empty tuple.  Floating      *)
(* point settings are integers.  The 64-bit SipHash of the cache key is    *)
(* modelled by the tuple of the strings that are fed to the hasher (hash   *)
(* collisions are not modelled).                                           *)
(***************************************************************************)
EXTENDS Integers, Sequences, FiniteSets, TLC

VARIABLES
    now,        \* SystemTime::now() in milliseconds since the epoch
    cache,      \* UnifiedProcessingEngine.cache : HashMap<String, CachedResult>
    stats,      \* UnifiedProcessingEngine.stats : ProcessingStats
    cacheLock,  \* holder of the cache mutex
    statsLock,  \* holder of the stats mutex
    tmpfs,      \* files /tmp/processed_{ms}.jpg : ms -> bytes
    pc,         \* position of every caller inside process_image_unified
    local,      \* the locals of every caller's current call
    returned,   \* number of calls that returned Ok so far
    harness     \* state of the sequential cache exercise (put / get)

vars == <<now, cache, stats, cacheLock, statsLock, tmpfs, pc, local,
          returned, harness>>

-----------------------------------------------------------------------------
(* Bounds of the model *)

MaxTime == 2        \* the clock of the engine runs over 0..MaxTime ms
NumPaths == 2       \* input images 1..NumPaths
MaxPuts == 2        \* update_cache calls of the cache exercise
MaxSeconds == 2     \* seconds the clock of the cache exercise may advance

(* Program constants *)

CacheCapacity == 100      \* if cache.len() > 100
EvictBatch == 20          \* sorted_entries.iter().take(20)
MsPerSecond == 1000       \* Duration::as_secs of a millisecond clock
PreviewMaxWidth == 800
PreviewMaxHeight == 600
FullQuality95 == 95

-----------------------------------------------------------------------------
(* Option and small helpers *)

None == <<>>
Some(x) == <<x>>
IsSome(o) == o # <<>>
UnwrapOrDefault(o) == IF o = <<>> THEN <<>> ELSE o[1]

\* Every caller is one task that calls process_image_unified once.  The
\* callers are interchangeable, so they start in a fixed order.
Callers == {"c1", "c2"}
NoCaller == "none"
StartsAfter(c) == IF c = "c2" THEN {"c1"} ELSE {}

RequestTypes == {"Preview", "FullQuality", "Both"}

Max(a, b) == IF a >= b THEN a ELSE b

-----------------------------------------------------------------------------
(* types.rs: the records the engine consumes *)

NoLocation == None

MetaCanon ==
    [make |-> Some("Canon"), model |-> Some("EOS R5"), aperture |-> Some("f/2.8"),
     shutter_speed |-> Some("1/250"), iso |-> Some(400),
     focal_length |-> Some("50mm"), timestamp |-> Some("2024:01:01 10:00:00"),
     location |-> NoLocation]

MetaNikon ==
    [make |-> Some("Nikon"), model |-> None, aperture |-> None,
     shutter_speed |-> None, iso |-> Some(100),
     focal_length |-> None, timestamp |-> None,
     location |-> NoLocation]

Metas == {MetaCanon, MetaNikon}

DisplayAll ==
    [brand |-> TRUE, model |-> TRUE, aperture |-> TRUE, shutter_speed |-> TRUE,
     iso |-> TRUE, timestamp |-> TRUE, location |-> TRUE, brand_logo |-> TRUE]

OverlayDefault ==
    [position |-> "BottomRight",
     font |-> [family |-> "DejaVu", size |-> 20, color |-> "#FFFFFF", weight |-> "Normal"],
     background |-> [color |-> "#000000", opacity |-> 1, padding |-> 10, border_radius |-> 0],
     display_items |-> DisplayAll]

Overlays == {OverlayDefault}

\* custom_properties as the set of its (key, value) entries
TwoProps == {<<"grain", 1>>, <<"tint", 2>>}

FrameCustom ==
    [enabled |-> TRUE, style |-> "Simple", color |-> "#FFFFFF", width |-> 10,
     opacity |-> 1, custom_properties |-> Some(TwoProps)]

FrameFilm ==
    [enabled |-> TRUE, style |-> "Film", color |-> "#FFFFFF", width |-> 10,
     opacity |-> 1, custom_properties |-> Some({<<"grain", 1>>})]

\* the frame settings the callers of the engine pass
Frames == {FrameFilm}

Paths == 1..NumPaths

\* The files behind the input paths: odd paths carry EXIF data, every third
\* path is not a decodable image.
Decodable(p) == p % 3 # 0
HasExif(p) == p % 2 = 1
ExifOf(p) == MetaCanon

-----------------------------------------------------------------------------
(* image_processing.rs: what a render puts into its output *)

\* generate_overlay_text: the lines in the fixed order make, model, aperture,
\* shutter speed, "ISO {n}", timestamp; the result stands for lines.join("\n")
Line(toggle, field) == IF toggle /\ IsSome(field) THEN <<<<field[1]>>>> ELSE <<>>

\* generate_overlay_text pushing the model before the make
GenerateOverlayTextModelFirst(metadata, display_items) ==
    Line(display_items.model, metadata.model)
    \o Line(display_items.brand, metadata.make)
    \o Line(display_items.aperture, metadata.aperture)
    \o Line(display_items.shutter_speed, metadata.shutter_speed)
    \o (IF display_items.iso /\ IsSome(metadata.iso)
        THEN <<<<"ISO ", metadata.iso[1]>>>> ELSE <<>>)
    \o Line(display_items.timestamp, metadata.timestamp)

GenerateOverlayText(metadata, display_items) ==
    Line(display_items.brand, metadata.make)
    \o Line(display_items.model, metadata.model)
    \o Line(display_items.aperture, metadata.aperture)
    \o Line(display_items.shutter_speed, metadata.shutter_speed)
    \o (IF display_items.iso /\ IsSome(metadata.iso)
        THEN <<<<"ISO ", metadata.iso[1]>>>> ELSE <<>>)
    \o Line(display_items.timestamp, metadata.timestamp)

\* apply_frame: every style fills the canvas with the frame colour, so the
\* pixels depend on colour, width and opacity only
ApplyFrame(frame_settings) ==
    IF frame_settings.enabled
    THEN <<frame_settings.color, frame_settings.width, frame_settings.opacity>>
    ELSE <<>>

\* generate_preview: decode, resize, extract the file's own EXIF record,
\* overlay, frame, encode as PNG into memory
GeneratePreview(image_path, overlay_settings, frame_settings) ==
    IF ~Decodable(image_path) THEN <<"Err", <<"Failed to open image">>>>
    ELSE IF ~HasExif(image_path) THEN <<"Err", <<"Failed to read EXIF data">>>>
    ELSE <<"Ok", <<"png", image_path, <<PreviewMaxWidth, PreviewMaxHeight>>,
                   GenerateOverlayText(ExifOf(image_path), overlay_settings.display_items),
                   ApplyFrame(frame_settings)>>>>

\* process_image up to the encoded buffer handed to save_image
ProcessImageEncode(input_path, metadata, overlay_settings, frame_settings, quality) ==
    IF ~Decodable(input_path) THEN <<"Err", <<"Failed to open image">>>>
    ELSE <<"Ok", <<"jpeg", input_path, <<quality>>,
                   GenerateOverlayText(metadata, overlay_settings.display_items),
                   ApplyFrame(frame_settings)>>>>

IsOk(r) == r[1] = "Ok"

-----------------------------------------------------------------------------
(* unified_engine.rs: cache key *)

\* The orders in which a HashMap of these entries can be iterated
IterationOrdersOf(S) ==
    {s \in [1..Cardinality(S) -> S] : \A i, j \in 1..Cardinality(S) : i # j => s[i] # s[j]}

\* Orders a FrameSettings value can print its custom_properties in
MapOrders(frame_settings) ==
    IF IsSome(frame_settings.custom_properties)
    THEN IterationOrdersOf(frame_settings.custom_properties[1])
    ELSE {<<>>}

\* format!("{:?}", overlay_settings): the fields in declaration order
DebugOverlaySettings(o) ==
    <<o.position,
      <<o.font.family, o.font.size, o.font.color, o.font.weight>>,
      <<o.background.color, o.background.opacity, o.background.padding,
        o.background.border_radius>>,
      <<o.display_items.brand, o.display_items.model, o.display_items.aperture,
        o.display_items.shutter_speed, o.display_items.iso,
        o.display_items.timestamp, o.display_items.location,
        o.display_items.brand_logo>>>>

\* format!("{:?}", frame_settings): the HashMap prints its entries in its
\* iteration order, which is map_order for this instance of the map
DebugFrameSettings(f, map_order) ==
    <<f.enabled, f.style, f.color, f.width, f.opacity,
      IF IsSome(f.custom_properties) THEN Some(map_order) ELSE None>>

DebugRequestType(request_type) == request_type

\* generate_cache_key without the request type among the hashed strings
GenerateCacheKeyOneVariant(input_path, overlay_settings, frame_settings, request_type, map_order) ==
    <<input_path, DebugOverlaySettings(overlay_settings),
      DebugFrameSettings(frame_settings, map_order), DebugRequestType("Preview")>>

GenerateCacheKey(input_path, overlay_settings, frame_settings, request_type, map_order) ==
    <<input_path, DebugOverlaySettings(overlay_settings),
      DebugFrameSettings(frame_settings, map_order), DebugRequestType(request_type)>>

-----------------------------------------------------------------------------
(* unified_engine.rs: cache and statistics *)

PreviewResult(data) == <<"Preview", data>>
FullQualityResult(data) == <<"FullQuality", data>>
BothResult(preview_data, full_data) == <<"Both", preview_data, full_data>>

Secs(ms) == ms \div MsPerSecond

\* the CachedResult update_cache builds from a ProcessingResult
CachedResultOf(key, result, timestamp) ==
    CASE result[1] = "Preview" ->
           [preview_data |-> result[2], full_data |-> None,
            timestamp |-> timestamp, settings_hash |-> key]
      [] result[1] = "FullQuality" ->
           [preview_data |-> <<>>, full_data |-> Some(result[2]),
            timestamp |-> timestamp, settings_hash |-> key]
      [] result[1] = "Both" ->
           [preview_data |-> result[2], full_data |-> Some(result[3]),
            timestamp |-> timestamp, settings_hash |-> key]

\* HashMap iteration: the model draws the unspecified order from two
\* representative ones, ascending and descending by input path
IterOrders == {"asc", "desc"}

RECURSIVE SeqOfSet(_)
SeqOfSet(S) ==
    IF S = {} THEN <<>>
    ELSE LET x == CHOOSE y \in S : TRUE IN <<x>> \o SeqOfSet(S \ {x})

\* the keys with an input path in lo..hi, ascending by input path
RECURSIVE AscendingIn(_, _, _)
AscendingIn(S, lo, hi) ==
    IF S = {} THEN <<>>
    ELSE IF lo >= hi THEN SeqOfSet(S)
    ELSE LET mid == (lo + hi) \div 2
         IN AscendingIn({k \in S : k[1] <= mid}, lo, mid)
            \o AscendingIn({k \in S : k[1] > mid}, mid + 1, hi)

MaxPathOf(S) ==
    LET ps == {k[1] : k \in S} IN CHOOSE p \in ps : \A q \in ps : q <= p

Reverse(s) == [i \in 1..Len(s) |-> s[Len(s) + 1 - i]]

CacheIter(map, order) ==
    LET asc == AscendingIn(DOMAIN map, 0, MaxPathOf(DOMAIN map))
    IN IF order = "asc" THEN asc ELSE Reverse(asc)

\* sort_by_key is a stable sort: per key value ascending, the elements in
\* their original order
RECURSIVE SortByTimestampFrom(_, _)
SortByTimestampFrom(entries, stamps) ==
    IF stamps = {} THEN <<>>
    ELSE LET t == CHOOSE x \in stamps : \A y \in stamps : x <= y
         IN SelectSeq(entries, LAMBDA e : e[2] = t)
            \o SortByTimestampFrom(entries, stamps \ {t})

\* the eviction pass without its sort: the first entries in iteration order
SortByTimestampOmitted(entries) == entries

SortByTimestamp(entries) ==
    SortByTimestampFrom(entries, {entries[i][2] : i \in 1..Len(entries)})

Take(s, n) == SubSeq(s, 1, IF Len(s) < n THEN Len(s) ELSE n)

\* the keys the eviction pass of update_cache removes
EvictedKeys(map, order) ==
    IF Cardinality(DOMAIN map) > CacheCapacity
    THEN LET keys == CacheIter(map, order)
             entries == [i \in 1..Len(keys) |-> <<keys[i], map[keys[i]].timestamp>>]
             oldest == Take(SortByTimestamp(entries), EvictBatch)
         IN {oldest[i][1] : i \in 1..Len(oldest)}
    ELSE {}

Insert(map, key, value) ==
    [k \in DOMAIN map \cup {key} |-> IF k = key THEN value ELSE map[k]]

Remove(map, keys) == [k \in DOMAIN map \ keys |-> map[k]]

\* update_cache(key, result) at clock time_ms, the map iterating in `order`
UpdateCache(map, key, result, time_ms, order) ==
    LET inserted == Insert(map, key, CachedResultOf(key, result, Secs(time_ms)))
    IN Remove(inserted, EvictedKeys(inserted, order))

\* get_from_cache
GetFromCache(map, key) == IF key \in DOMAIN map THEN Some(map[key]) ELSE None

\* extract_result_from_cache with one arm for every request type
ExtractResultFromCacheOneArm(cached, request_type) ==
    PreviewResult(cached.preview_data)

ExtractResultFromCache(cached, request_type) ==
    CASE request_type = "Preview" -> PreviewResult(cached.preview_data)
      [] request_type = "FullQuality" ->
           FullQualityResult(UnwrapOrDefault(cached.full_data))
      [] request_type = "Both" ->
           BothResult(cached.preview_data, UnwrapOrDefault(cached.full_data))

\* update_stats with the else branch run on every call
UpdateStatsNoElse(s, cache_hit, processing_time) ==
    [s EXCEPT !.cache_hits = IF cache_hit THEN @ + 1 ELSE @,
              !.cache_misses = @ + 1,
              !.total_processing_time = @ + processing_time]

UpdateStats(s, cache_hit, processing_time) ==
    IF cache_hit
    THEN [s EXCEPT !.cache_hits = @ + 1]
    ELSE [s EXCEPT !.cache_misses = @ + 1,
                   !.total_processing_time = @ + processing_time]

-----------------------------------------------------------------------------
(* unified_engine.rs: process_image_unified, one caller's steps *)

NoCall ==
    [input_path |-> 0, metadata |-> MetaCanon, overlay_settings |-> OverlayDefault,
     frame_settings |-> FrameFilm, request_type |-> "Preview",
     start_time |-> 0, cache_key |-> <<>>, cached |-> None,
     preview_started |-> None, preview_result |-> None, preview_ms |-> None,
     full_started |-> None, output_path |-> None, encoded |-> None,
     full_data |-> None, full_result |-> None, full_ms |-> None,
     result |-> None, processing_time |-> 0,
     from_cache |-> FALSE]

EngineNew ==
    /\ stats = [cache_hits |-> 0, cache_misses |-> 0, total_processing_time |-> 0]
    /\ cacheLock = NoCaller
    /\ statsLock = NoCaller
    /\ tmpfs = <<>>
    /\ pc = [c \in Callers |-> "idle"]
    /\ local = [c \in Callers |-> NoCall]
    /\ returned = 0

Init ==
    /\ EngineNew
    /\ now = 0
    /\ cache = <<>>
    /\ harness = [pc |-> "unused"]

\* the call returns Err(e): `?` leaves process_image_unified at once
Fail(c, e) ==
    /\ pc' = [pc EXCEPT ![c] = "done"]
    /\ local' = [local EXCEPT ![c] = NoCall]
    /\ returned' = returned

\* lines 50-61: read the clock, compute the cache key
ProcessImageUnified(c, input_path, metadata, overlay_settings, frame_settings, request_type, map_order) ==
    /\ pc[c] = "idle"
    /\ \A d \in StartsAfter(c) : pc[d] # "idle"
    /\ local' = [local EXCEPT ![c] =
            [NoCall EXCEPT
               !.input_path = input_path, !.metadata = metadata,
               !.overlay_settings = overlay_settings,
               !.frame_settings = frame_settings,
               !.request_type = request_type,
               !.start_time = now,
               !.cache_key = GenerateCacheKey(input_path, overlay_settings,
                                 frame_settings, request_type, map_order)]]
    /\ pc' = [pc EXCEPT ![c] = "get_from_cache"]
    /\ UNCHANGED <<now, cache, stats, cacheLock, statsLock, tmpfs, returned, harness>>

\* line 205: self.cache.lock()
GetFromCacheLock(c) ==
    /\ pc[c] = "get_from_cache"
    /\ cacheLock = NoCaller
    /\ cacheLock' = c
    /\ pc' = [pc EXCEPT ![c] = "get_from_cache_locked"]
    /\ UNCHANGED <<now, cache, stats, statsLock, tmpfs, local, returned, harness>>

\* the first sub-render a miss starts: try_join! polls the preview future first
FirstRender(request_type) ==
    IF request_type = "FullQuality" THEN "process_full_quality" ELSE "process_preview"

\* get_from_cache with the guard kept alive over the miss branch
GetFromCacheReadKeepingGuard(c) ==
    /\ pc[c] = "get_from_cache_locked"
    /\ LET l == local[c]
           found == GetFromCache(cache, l.cache_key)
       IN /\ local' = [local EXCEPT ![c] =
                 [l EXCEPT !.cached = found,
                           !.from_cache = IsSome(found),
                           !.preview_started =
                               IF ~IsSome(found) /\ l.request_type # "FullQuality"
                               THEN Some(now) ELSE None]]
          /\ pc' = [pc EXCEPT ![c] =
                 IF IsSome(found) THEN "update_stats_hit"
                 ELSE FirstRender(l.request_type)]
          /\ cacheLock' = IF IsSome(found) THEN NoCaller ELSE c
    /\ UNCHANGED <<now, cache, stats, statsLock, tmpfs, returned, harness>>

\* line 206 and the dispatch of lines 64-80; the guard is dropped on return
GetFromCacheRead(c) ==
    /\ pc[c] = "get_from_cache_locked"
    /\ LET l == local[c]
           found == GetFromCache(cache, l.cache_key)
       IN /\ local' = [local EXCEPT ![c] =
                 [l EXCEPT !.cached = found,
                           !.from_cache = IsSome(found),
                           !.preview_started =
                               IF ~IsSome(found) /\ l.request_type # "FullQuality"
                               THEN Some(now) ELSE None]]
          /\ pc' = [pc EXCEPT ![c] =
                 IF IsSome(found) THEN "update_stats_hit"
                 ELSE FirstRender(l.request_type)]
    /\ cacheLock' = NoCaller
    /\ UNCHANGED <<now, cache, stats, statsLock, tmpfs, returned, harness>>

\* line 65, line 269: self.stats.lock()
UpdateStatsHitLock(c) ==
    /\ pc[c] = "update_stats_hit"
    /\ statsLock = NoCaller
    /\ statsLock' = c
    /\ pc' = [pc EXCEPT ![c] = "update_stats_hit_locked"]
    /\ UNCHANGED <<now, cache, stats, cacheLock, tmpfs, local, returned, harness>>

\* lines 65-66: update_stats(true, 0), then return the extracted result
UpdateStatsHit(c) ==
    /\ pc[c] = "update_stats_hit_locked"
    /\ stats' = UpdateStats(stats, TRUE, 0)
    /\ statsLock' = NoCaller
    /\ local' = [local EXCEPT ![c] = NoCall]
    /\ pc' = [pc EXCEPT ![c] = "done"]
    /\ returned' = returned + 1
    /\ UNCHANGED <<now, cache, cacheLock, tmpfs, harness>>

\* process_preview with the miss counted in the statistics when the render
\* fails
ProcessPreviewCountingFailure(c) ==
    /\ pc[c] = "process_preview"
    /\ LET l == local[c]
           r == GeneratePreview(l.input_path, l.overlay_settings, l.frame_settings)
           l2 == [l EXCEPT !.preview_result = Some(r),
                           !.preview_ms = Some(now - l.preview_started[1])]
       IN IF ~IsOk(r)
          THEN /\ Fail(c, r)
               /\ stats' = UpdateStats(stats, FALSE, now - l.start_time)
          ELSE /\ local' = [local EXCEPT ![c] =
                     IF l.request_type = "Preview"
                     THEN [l2 EXCEPT !.result = Some(PreviewResult(r[2]))]
                     ELSE l2]
               /\ pc' = [pc EXCEPT ![c] =
                     IF l.request_type = "Preview" THEN "update_cache"
                     ELSE "process_full_quality"]
               /\ returned' = returned
               /\ stats' = stats
    /\ UNCHANGED <<now, cache, cacheLock, statsLock, tmpfs, harness>>

\* lines 96-114: process_preview runs generate_preview to its end; a failure of
\* the preview leaves try_join! (line 168) before the other future is polled
ProcessPreview(c) ==
    /\ pc[c] = "process_preview"
    /\ LET l == local[c]
           r == GeneratePreview(l.input_path, l.overlay_settings, l.frame_settings)
           l2 == [l EXCEPT !.preview_result = Some(r),
                           !.preview_ms = Some(now - l.preview_started[1])]
       IN IF ~IsOk(r) THEN Fail(c, r)
          ELSE /\ local' = [local EXCEPT ![c] =
                     IF l.request_type = "Preview"
                     THEN [l2 EXCEPT !.result = Some(PreviewResult(r[2]))]
                     ELSE l2]
               /\ pc' = [pc EXCEPT ![c] =
                     IF l.request_type = "Preview" THEN "update_cache"
                     ELSE "process_full_quality"]
               /\ returned' = returned
    /\ UNCHANGED <<now, cache, stats, cacheLock, statsLock, tmpfs, harness>>

\* lines 124-125: the temporary output path is named by the clock
ProcessFullQualityBegin(c) ==
    /\ pc[c] = "process_full_quality"
    /\ local' = [local EXCEPT ![c] =
           [@ EXCEPT !.output_path = Some(now), !.full_started = Some(now)]]
    /\ pc' = [pc EXCEPT ![c] = "process_image"]
    /\ UNCHANGED <<now, cache, stats, cacheLock, statsLock, tmpfs, returned, harness>>

\* image_processing.rs lines 25-42: decode, overlay, frame, encode, fs::write
ProcessImageSave(c) ==
    /\ pc[c] = "process_image"
    /\ LET l == local[c]
           r == ProcessImageEncode(l.input_path, l.metadata, l.overlay_settings,
                                   l.frame_settings, FullQuality95)
       IN IF ~IsOk(r)
          THEN /\ Fail(c, r)
               /\ tmpfs' = tmpfs
          ELSE \E write_ok \in BOOLEAN :
                 IF write_ok
                 THEN /\ tmpfs' = Insert(tmpfs, l.output_path[1], r[2])
                      /\ local' = [local EXCEPT ![c] = [l EXCEPT !.encoded = Some(r[2])]]
                      /\ pc' = [pc EXCEPT ![c] = "read_output"]
                      /\ returned' = returned
                 ELSE /\ Fail(c, <<"Err", <<"Failed to write image">>>>)
                      /\ tmpfs' = tmpfs
    /\ UNCHANGED <<now, cache, stats, cacheLock, statsLock, harness>>

\* image_processing.rs lines 45-47, fs::metadata(output_path), and line 137,
\* std::fs::read(&output_path)?: either fails when the file is not there
ProcessFullQualityRead(c) ==
    /\ pc[c] = "read_output"
    /\ LET l == local[c]
           e == <<"Err", <<"No such file or directory">>>>
       IN IF l.output_path[1] \in DOMAIN tmpfs
          THEN /\ local' = [local EXCEPT ![c] =
                     [l EXCEPT !.full_data = Some(tmpfs[l.output_path[1]])]]
               /\ pc' = [pc EXCEPT ![c] = "remove_output"]
               /\ returned' = returned
          ELSE Fail(c, e)
    /\ UNCHANGED <<now, cache, stats, cacheLock, statsLock, tmpfs, harness>>

\* lines 140-142 and, for Both, the join of lines 168-180
ProcessFullQualityRemove(c) ==
    /\ pc[c] = "remove_output"
    /\ LET l == local[c]
           data == l.full_data[1]
       IN /\ tmpfs' = Remove(tmpfs, {l.output_path[1]})
          /\ local' = [local EXCEPT ![c] =
                [l EXCEPT !.full_result = Some(<<"Ok", data>>),
                          !.full_ms = Some(now - l.full_started[1]),
                          !.result = Some(IF l.request_type = "Both"
                                          THEN BothResult(l.preview_result[1][2], data)
                                          ELSE FullQualityResult(data))]]
    /\ pc' = [pc EXCEPT ![c] = "update_cache"]
    /\ UNCHANGED <<now, cache, stats, cacheLock, statsLock, returned, harness>>

\* line 83, line 211: self.cache.lock()
UpdateCacheLock(c) ==
    /\ pc[c] = "update_cache"
    /\ cacheLock = NoCaller
    /\ cacheLock' = c
    /\ pc' = [pc EXCEPT ![c] = "update_cache_locked"]
    /\ UNCHANGED <<now, cache, stats, statsLock, tmpfs, local, returned, harness>>

\* lines 213-246, then the clock is read for the processing time (lines 85-88)
UpdateCacheInsert(c) ==
    /\ pc[c] = "update_cache_locked"
    /\ LET l == local[c]
       IN /\ \E order \in IterOrders :
               cache' = UpdateCache(cache, l.cache_key, l.result[1], now, order)
          /\ local' = [local EXCEPT ![c] =
                [l EXCEPT !.processing_time = now - l.start_time]]
    /\ cacheLock' = NoCaller
    /\ pc' = [pc EXCEPT ![c] = "update_stats_miss"]
    /\ UNCHANGED <<now, stats, statsLock, tmpfs, returned, harness>>

\* line 90, line 269: self.stats.lock()
UpdateStatsMissLock(c) ==
    /\ pc[c] = "update_stats_miss"
    /\ statsLock = NoCaller
    /\ statsLock' = c
    /\ pc' = [pc EXCEPT ![c] = "update_stats_miss_locked"]
    /\ UNCHANGED <<now, cache, stats, cacheLock, tmpfs, local, returned, harness>>

\* lines 90-92: update_stats(false, processing_time), then Ok(result)
UpdateStatsMiss(c) ==
    /\ pc[c] = "update_stats_miss_locked"
    /\ stats' = UpdateStats(stats, FALSE, local[c].processing_time)
    /\ statsLock' = NoCaller
    /\ local' = [local EXCEPT ![c] = NoCall]
    /\ pc' = [pc EXCEPT ![c] = "done"]
    /\ returned' = returned + 1
    /\ UNCHANGED <<now, cache, cacheLock, tmpfs, harness>>

\* the millisecond clock advances; the bookkeeping steps of the engine are
\* taken to be instantaneous next to a render (decode, composite, encode)
Rendering(c) == pc[c] \in {"process_preview", "process_image"}

Tick ==
    /\ now < MaxTime
    /\ \E c \in Callers : Rendering(c)
    /\ now' = now + 1
    /\ UNCHANGED <<cache, stats, cacheLock, statsLock, tmpfs, pc, local,
                   returned, harness>>

Next ==
    \/ \E c \in Callers, input_path \in Paths, metadata \in Metas,
          overlay_settings \in Overlays, frame_settings \in Frames,
          request_type \in RequestTypes :
         \E map_order \in MapOrders(frame_settings) :
            ProcessImageUnified(c, input_path, metadata, overlay_settings,
                                frame_settings, request_type, map_order)
    \/ \E c \in Callers : GetFromCacheLock(c)
    \/ \E c \in Callers : GetFromCacheRead(c)
    \/ \E c \in Callers : UpdateStatsHitLock(c)
    \/ \E c \in Callers : UpdateStatsHit(c)
    \/ \E c \in Callers : ProcessPreview(c)
    \/ \E c \in Callers : ProcessFullQualityBegin(c)
    \/ \E c \in Callers : ProcessImageSave(c)
    \/ \E c \in Callers : ProcessFullQualityRead(c)
    \/ \E c \in Callers : ProcessFullQualityRemove(c)
    \/ \E c \in Callers : UpdateCacheLock(c)
    \/ \E c \in Callers : UpdateCacheInsert(c)
    \/ \E c \in Callers : UpdateStatsMissLock(c)
    \/ \E c \in Callers : UpdateStatsMiss(c)
    \/ Tick

Spec == Init /\ [][Next]_vars

-----------------------------------------------------------------------------
(* Properties of the engine, checked under Spec *)

\* the caller is inside the render pipeline (process_preview or
\* process_full_quality) of a cache miss
InRender(c) ==
    pc[c] \in {"process_preview", "process_full_quality", "process_image",
               "read_output", "remove_output"}

\* what a fresh render of the call's own arguments returns
FreshRender(l) ==
    LET p == GeneratePreview(l.input_path, l.overlay_settings, l.frame_settings)
        f == ProcessImageEncode(l.input_path, l.metadata, l.overlay_settings,
                                l.frame_settings, FullQuality95)
    IN CASE l.request_type = "Preview" -> PreviewResult(p[2])
         [] l.request_type = "FullQuality" -> FullQualityResult(f[2])
         [] l.request_type = "Both" -> BothResult(p[2], f[2])

\* C1: at most one computation per key -- no two concurrent calls with the
\* same cache key are inside the render pipeline at the same time (the
\* second one would wait for, and reuse, the first one's result).
C1_AtMostOneComputationPerKey ==
    \A c, d \in Callers :
        (c # d /\ InRender(c) /\ InRender(d))
            => local[c].cache_key # local[d].cache_key

\* C5: cache transparency -- a call that is answered from the cache returns
\* the bytes a fresh render of its own arguments would produce.
C5_CacheTransparency ==
    \A c \in Callers :
        pc[c] = "update_stats_hit_locked"
            => ExtractResultFromCache(local[c].cached[1], local[c].request_type)
                 = FreshRender(local[c])

\* C6: Both joins both -- a Both request that missed the cache has a result
\* only when its preview render and its full-quality render have both
\* completed, and the result carries the bytes those two renders produced.
C6_BothJoinsBoth ==
    \A c \in Callers :
        (local[c].request_type = "Both" /\ IsSome(local[c].result))
            => /\ IsSome(local[c].preview_result) /\ IsOk(local[c].preview_result[1])
               /\ IsSome(local[c].full_result) /\ IsOk(local[c].full_result[1])
               /\ local[c].result[1]
                    = BothResult(local[c].preview_result[1][2], local[c].encoded[1])

\* C7: Both is concurrent -- when both sub-renders of a Both request take
\* time, the call's elapsed time is at least the longer of the two durations
\* and less than their sum.
C7_BothIsConcurrent ==
    \A c \in Callers :
        (/\ pc[c] = "update_stats_miss_locked"
         /\ local[c].request_type = "Both"
         /\ local[c].preview_ms[1] > 0
         /\ local[c].full_ms[1] > 0)
            => /\ local[c].processing_time
                    >= Max(local[c].preview_ms[1], local[c].full_ms[1])
               /\ local[c].processing_time
                    < local[c].preview_ms[1] + local[c].full_ms[1]

\* the two sub-renders of one Both request are never in flight together:
\* the full-quality render starts only when the preview render has ended
BothRendersInSequence ==
    \A c \in Callers :
        (local[c].request_type = "Both" /\ IsSome(local[c].full_started))
            => /\ IsSome(local[c].preview_result)
               /\ local[c].full_started[1]
                    >= local[c].preview_started[1] + local[c].preview_ms[1]

\* C8: Both failure semantics -- when a Both request returns a failure, the
\* sub-render that did not fail was not skipped: the full-quality render was
\* started as well as the preview render.
C8_BothFailureRunsBoth ==
    [][\A c \in Callers :
         (/\ local[c].request_type = "Both"
          /\ InRender(c)
          /\ pc'[c] = "done")
            => IsSome(local[c].full_started)]_vars

\* C9: short critical sections -- a caller holds the cache lock only at the
\* read of get_from_cache or the mutation of update_cache, the stats lock
\* only at the mutation of update_stats, never both, and never while it is
\* inside the render pipeline.
C9_ShortCriticalSections ==
    \A c \in Callers :
        /\ cacheLock = c => pc[c] \in {"get_from_cache_locked", "update_cache_locked"}
        /\ statsLock = c => pc[c] \in {"update_stats_hit_locked", "update_stats_miss_locked"}
        /\ ~(cacheLock = c /\ statsLock = c)
        /\ (cacheLock = c \/ statsLock = c) => ~InRender(c)

\* a caller mutates the cache under the lock while the other caller renders
C9_Witness ==
    \E c, d \in Callers :
        /\ c # d
        /\ cacheLock = c /\ pc[c] = "update_cache_locked"
        /\ InRender(d)

\* the step of caller c that returns from process_image_unified
Returns(c) == pc[c] # "done" /\ pc'[c] = "done"

C11_ResultVariantMatchesRequest ==
    \A c \in Callers :
        /\ pc[c] = "update_stats_hit_locked"
              => ExtractResultFromCache(local[c].cached[1], local[c].request_type)[1]
                    = local[c].request_type
        /\ pc[c] \in {"update_cache", "update_cache_locked", "update_stats_miss",
                      "update_stats_miss_locked"}
              => /\ IsSome(local[c].result)
                 /\ local[c].result[1][1] = local[c].request_type

\* a Both request is answered from the cache entry of an earlier Both call
C11_Witness ==
    \E c \in Callers :
        /\ pc[c] = "update_stats_hit_locked"
        /\ local[c].request_type = "Both"
        /\ IsSome(local[c].cached[1].full_data)

-----------------------------------------------------------------------------
(* generate_cache_key as a function of two requests: SpecKey *)

\* frame settings with no extension map
FrameNone ==
    [enabled |-> FALSE, style |-> "Simple", color |-> "#000000", width |-> 0,
     opacity |-> 1, custom_properties |-> None]

KeyFrames == {FrameNone, FrameFilm, FrameCustom}

\* a request and the iteration order of this instance of its extension map
KeyInputs ==
    {i \in [input_path : Paths, overlay_settings : Overlays,
            frame_settings : KeyFrames, request_type : RequestTypes,
            map_order : UNION {MapOrders(f) : f \in KeyFrames}] :
        i.map_order \in MapOrders(i.frame_settings)}

\* the structural value of a request: everything but the instance's order
Request(i) ==
    <<i.input_path, i.overlay_settings, i.frame_settings, i.request_type>>

KeyOf(i) ==
    GenerateCacheKey(i.input_path, i.overlay_settings, i.frame_settings,
                     i.request_type, i.map_order)

InitKey ==
    /\ EngineNew
    /\ now = 0
    /\ cache = <<>>
    /\ \E a, b \in KeyInputs :
          harness = [pc |-> "requests", a |-> a, b |-> b,
                     key_a |-> None, key_b |-> None]

GenerateCacheKeys ==
    /\ harness.pc = "requests"
    /\ harness' = [harness EXCEPT !.pc = "keys",
                                  !.key_a = Some(KeyOf(harness.a)),
                                  !.key_b = Some(KeyOf(harness.b))]
    /\ UNCHANGED <<now, cache, stats, cacheLock, statsLock, tmpfs, pc, local, returned>>

NextKey == GenerateCacheKeys

SpecKey == InitKey /\ [][NextKey]_vars

\* C4: key determinism -- two generate_cache_key calls on structurally equal
\* requests return the same key, whatever the order of the extension map.
C4_KeyDeterminism ==
    (harness.pc = "keys" /\ Request(harness.a) = Request(harness.b))
        => harness.key_a = harness.key_b

-----------------------------------------------------------------------------
(* update_cache and get_from_cache on a filled cache: SpecCache *)

\* the i-th input path that is a decodable image: 1, 2, 4, 5, 7, ...
DecodablePath(i) == i + (i - 1) \div 2

\* the request the i-th filling call made, and when it stored its result
FillKey(i) ==
    GenerateCacheKey(DecodablePath(i), OverlayDefault, FrameNone, "FullQuality", <<>>)
FillResult(i) ==
    FullQualityResult(ProcessImageEncode(DecodablePath(i), MetaCanon, OverlayDefault,
                                         FrameNone, FullQuality95)[2])
FillPatterns == {"same_second", "spread"}
FillTime(i, pattern) ==
    IF pattern = "same_second" THEN 0 ELSE ((i - 1) \div 25) * MsPerSecond

\* the cache after n <= 100 successful FullQuality calls on n different
\* images: every call inserted its entry and none was evicted
Filled(n, pattern) ==
    LET call(k) == CHOOSE i \in 1..n : FillKey(i) = k
    IN [k \in {FillKey(i) : i \in 1..n} |->
          CachedResultOf(k, FillResult(call(k)), Secs(FillTime(call(k), pattern)))]

FillSizes == {0, CacheCapacity - 1, CacheCapacity}

\* the images the exercise stores results for: cached ones and new ones
PutPaths == {DecodablePath(i) : i \in {1, CacheCapacity, CacheCapacity + 1, CacheCapacity + 2}}

Renderable(input_path, request_type) ==
    /\ Decodable(input_path)
    /\ request_type # "FullQuality" => HasExif(input_path)

InitCache ==
    /\ EngineNew
    /\ \E n \in FillSizes, pattern \in FillPatterns :
          /\ cache = Filled(n, pattern)
          /\ now = IF n = 0 THEN 0 ELSE FillTime(n, pattern)
    /\ harness = [pc |-> "ready", puts |-> 0, seconds |-> 0, key |-> <<>>,
                  request_type |-> "Preview", result |-> <<>>,
                  inserted |-> 0, evicted |-> {}, got |-> None]

\* update_cache(key, result) with the result of a render of the request
CachePut(input_path, request_type, order) ==
    /\ harness.pc \in {"ready", "got"}
    /\ harness.puts < MaxPuts
    /\ Renderable(input_path, request_type)
    /\ LET key == GenerateCacheKey(input_path, OverlayDefault, FrameNone,
                                   request_type, <<>>)
           result == FreshRender([input_path |-> input_path, metadata |-> MetaCanon,
                                  overlay_settings |-> OverlayDefault,
                                  frame_settings |-> FrameNone,
                                  request_type |-> request_type])
           stamp(k) == IF k = key THEN Secs(now) ELSE cache[k].timestamp
       IN /\ cache' = UpdateCache(cache, key, result, now, order)
          /\ harness' = [harness EXCEPT
                !.pc = "stored", !.puts = @ + 1, !.key = key,
                !.request_type = request_type, !.result = result,
                !.inserted = Cardinality(DOMAIN cache \cup {key}),
                !.evicted = {<<k, stamp(k)>> :
                                k \in (DOMAIN cache \cup {key}) \ DOMAIN cache'},
                !.got = None]
    /\ UNCHANGED <<now, stats, cacheLock, statsLock, tmpfs, pc, local, returned>>

\* get_from_cache(key) right after the update_cache(key, result)
CacheGet ==
    /\ harness.pc = "stored"
    /\ harness' = [harness EXCEPT !.pc = "got",
                                  !.got = GetFromCache(cache, harness.key)]
    /\ UNCHANGED <<now, cache, stats, cacheLock, statsLock, tmpfs, pc, local, returned>>

\* a second passes between two exercises
TickSecond ==
    /\ harness.pc \in {"ready", "got"}
    /\ harness.seconds < MaxSeconds
    /\ now' = now + MsPerSecond
    /\ harness' = [harness EXCEPT !.seconds = @ + 1]
    /\ UNCHANGED <<cache, stats, cacheLock, statsLock, tmpfs, pc, local, returned>>

NextCache ==
    \/ \E input_path \in PutPaths, request_type \in RequestTypes, order \in IterOrders :
          CachePut(input_path, request_type, order)
    \/ CacheGet
    \/ TickSecond

SpecCache == InitCache /\ [][NextCache]_vars

\* C2: put-then-get round trip -- get_from_cache right after update_cache
\* on the same key returns an entry whose bytes for the stored variant are
\* the bytes that were stored.
C2_PutThenGet ==
    harness.pc = "got"
        => /\ IsSome(harness.got)
           /\ ExtractResultFromCache(harness.got[1], harness.request_type)
                = harness.result

-----------------------------------------------------------------------------
(* image_processing.rs: parse_color.  A &str is the sequence of its         *)
(* characters (ASCII only); an f32 parsed from text is kept in hundredths.  *)

U8Max == 255

\* `x as u8` of a number: truncated before, saturating here
AsU8(x) == IF x < 0 THEN 0 ELSE IF x > U8Max THEN U8Max ELSE x

\* (opacity * 255.0) as u8, the opacity a whole number
OpacityAlpha(opacity) == AsU8(opacity * U8Max)

StartsWith(s, prefix) ==
    Len(s) >= Len(prefix) /\ SubSeq(s, 1, Len(prefix)) = prefix

EndsWith(s, suffix) ==
    Len(s) >= Len(suffix) /\ SubSeq(s, Len(s) - Len(suffix) + 1, Len(s)) = suffix

\* str::split(sep): the pieces between the separators, empty pieces included
RECURSIVE Split(_, _)
Split(s, sep) ==
    IF \A i \in 1..Len(s) : s[i] # sep THEN <<s>>
    ELSE LET i == CHOOSE j \in 1..Len(s) :
                      s[j] = sep /\ \A k \in 1..(j - 1) : s[k] # sep
         IN <<SubSeq(s, 1, i - 1)>> \o Split(SubSeq(s, i + 1, Len(s)), sep)

\* str::trim
RECURSIVE Trim(_)
Trim(s) ==
    IF s = <<>> THEN s
    ELSE IF s[1] = " " THEN Trim(Tail(s))
    ELSE IF s[Len(s)] = " " THEN Trim(SubSeq(s, 1, Len(s) - 1))
    ELSE s

DecimalDigits == <<"0", "1", "2", "3", "4", "5", "6", "7", "8", "9">>
HexLetters == <<"a", "b", "c", "d", "e", "f">>
HexCapitals == <<"A", "B", "C", "D", "E", "F">>

IndexIn(c, digits) == CHOOSE i \in 1..Len(digits) : digits[i] = c
IsIn(c, digits) == \E i \in 1..Len(digits) : digits[i] = c

\* char::to_digit(radix)
IsDigit(c, radix) ==
    IsIn(c, DecimalDigits) \/ (radix = 16 /\ (IsIn(c, HexLetters) \/ IsIn(c, HexCapitals)))

DigitValue(c) ==
    IF IsIn(c, DecimalDigits) THEN IndexIn(c, DecimalDigits) - 1
    ELSE IF IsIn(c, HexLetters) THEN IndexIn(c, HexLetters) + 9
    ELSE IndexIn(c, HexCapitals) + 9

RECURSIVE DigitsValue(_, _)
DigitsValue(s, radix) ==
    IF s = <<>> THEN 0
    ELSE DigitsValue(SubSeq(s, 1, Len(s) - 1), radix) * radix + DigitValue(s[Len(s)])

ParseErr == <<"Err", <<"ParseIntError">>>>

\* u8::from_str_radix: an optional '+', then one digit or more, at most 255
FromStrRadixU8(s, radix) ==
    LET digits == IF s # <<>> /\ s[1] = "+" THEN Tail(s) ELSE s
    IN IF digits = <<>> \/ \E i \in 1..Len(digits) : ~IsDigit(digits[i], radix)
       THEN ParseErr
       ELSE IF DigitsValue(digits, radix) > U8Max THEN ParseErr
       ELSE <<"Ok", DigitsValue(digits, radix)>>

\* str::parse::<u8>
ParseU8(s) == FromStrRadixU8(s, 10)

\* str::parse::<f32> of a decimal number [sign] digits [. digits], in
\* hundredths (the fraction is read to two places); anything else is an error
ParseF32(s) ==
    LET negative == s # <<>> /\ s[1] = "-"
        unsigned == IF s # <<>> /\ s[1] \in {"+", "-"} THEN Tail(s) ELSE s
        parts == Split(unsigned, ".")
        whole == parts[1]
        fraction == IF Len(parts) = 2 THEN parts[2] ELSE <<>>
        all_digits(d) == \A i \in 1..Len(d) : IsDigit(d[i], 10)
        frac100 == IF fraction = <<>> THEN 0
                   ELSE IF Len(fraction) = 1 THEN DigitValue(fraction[1]) * 10
                   ELSE DigitsValue(SubSeq(fraction, 1, 2), 10)
        value == DigitsValue(whole, 10) * 100 + frac100
    IN IF Len(parts) > 2 \/ (whole = <<>> /\ fraction = <<>>)
          \/ ~all_digits(whole) \/ ~all_digits(fraction)
       THEN <<"Err", <<"ParseFloatError">>>>
       ELSE <<"Ok", IF negative THEN 0 - value ELSE value>>

\* str::trim_start_matches('#')
RECURSIVE TrimStartMatches(_, _)
TrimStartMatches(s, c) ==
    IF s # <<>> /\ s[1] = c THEN TrimStartMatches(Tail(s), c) ELSE s

Rgba(r, g, b, a) == <<r, g, b, a>>

InvalidColorFormat(color_str) == <<"Err", <<"Invalid color format", color_str>>>>

\* the three channels parsed by `parse`, the first failure wins (`?`)
Channels(parts, radix) ==
    LET r == FromStrRadixU8(parts[1], radix)
        g == FromStrRadixU8(parts[2], radix)
        b == FromStrRadixU8(parts[3], radix)
    IN IF ~IsOk(r) THEN <<"Err", <<"Invalid red component">>>>
       ELSE IF ~IsOk(g) THEN <<"Err", <<"Invalid green component">>>>
       ELSE IF ~IsOk(b) THEN <<"Err", <<"Invalid blue component">>>>
       ELSE <<"Ok", <<r[2], g[2], b[2]>>>>

\* lines 439-453: the hex form and the final error
ParseHex(color_str, opacity) ==
    LET hex_str == TrimStartMatches(color_str, "#")
    IN IF Len(hex_str) = 6
       THEN LET c == Channels(<<SubSeq(hex_str, 1, 2), SubSeq(hex_str, 3, 4),
                                SubSeq(hex_str, 5, 6)>>, 16)
            IN IF IsOk(c) THEN <<"Ok", Rgba(c[2][1], c[2][2], c[2][3], OpacityAlpha(opacity))>>
               ELSE c
       ELSE InvalidColorFormat(color_str)

\* lines 421-437: the rgb(r, g, b) form, falling through on another count
ParseRgb(color_str, opacity) ==
    IF StartsWith(color_str, <<"r", "g", "b", "(">>) /\ EndsWith(color_str, <<")">>)
    THEN LET inner == SubSeq(color_str, 5, Len(color_str) - 1)
             split == Split(inner, ",")
             parts == [i \in 1..Len(split) |-> Trim(split[i])]
         IN IF Len(parts) = 3
            THEN LET c == Channels(parts, 10)
                 IN IF IsOk(c)
                    THEN <<"Ok", Rgba(c[2][1], c[2][2], c[2][3], OpacityAlpha(opacity))>>
                    ELSE c
            ELSE ParseHex(color_str, opacity)
    ELSE ParseHex(color_str, opacity)

\* parse_color(color_str, opacity), lines 401-454
parse_color(color_str, opacity) ==
    IF StartsWith(color_str, <<"r", "g", "b", "a", "(">>) /\ EndsWith(color_str, <<")">>)
    THEN LET inner == SubSeq(color_str, 6, Len(color_str) - 1)
             split == Split(inner, ",")
             parts == [i \in 1..Len(split) |-> Trim(split[i])]
         IN IF Len(parts) = 4
            THEN LET c == Channels(parts, 10)
                     a == ParseF32(parts[4])
                 IN IF ~IsOk(c) THEN c
                    ELSE IF ~IsOk(a) THEN <<"Err", <<"Invalid alpha component">>>>
                    ELSE <<"Ok", Rgba(c[2][1], c[2][2], c[2][3],
                                      AsU8((a[2] * U8Max) \div 100))>>
            ELSE ParseRgb(color_str, opacity)
    ELSE ParseRgb(color_str, opacity)

-----------------------------------------------------------------------------
(* parse_color on colour texts of every form: SpecColor *)

Text0 == <<"0">>
Text255 == <<"2", "5", "5">>
Text256 == <<"2", "5", "6">>

RedTexts == {Text0, <<"1", "2", "8">>, Text255, Text256, <<"x">>, <<" ", "7">>}
GreenTexts == {Text0, Text255, Text256}
BlueTexts == {Text0, <<"x">>}
AlphaTexts ==
    {Text0, <<"0", ".", "5">>, <<"1">>, <<"2">>, <<"-", "1">>, <<"1", ".", "5">>, <<"x">>}

HexBodies ==
    {<<"F", "F", "0", "0", "0", "0">>, <<"f", "f", "8", "0", "0", "0">>,
     <<"Z", "Z", "Z", "Z", "Z", "Z">>, <<"F", "F", "0", "0">>,
     <<"+", "F", "+", "F", "+", "F">>, <<"0", "0", "0", "0", "0", "0", "0">>}

RgbText(r, g, b) == <<"r", "g", "b", "(">> \o r \o <<",">> \o g \o <<",">> \o b \o <<")">>

RgbaText(r, g, b, a) ==
    <<"r", "g", "b", "a", "(">> \o r \o <<",">> \o g \o <<",">> \o b \o <<",">> \o a \o <<")">>

ColorTexts ==
    {prefix \o body : prefix \in {<<>>, <<"#">>, <<"#", "#">>}, body \in HexBodies}
    \cup {RgbText(r, g, b) : r \in RedTexts, g \in GreenTexts, b \in BlueTexts}
    \cup {RgbaText(r, Text255, Text0, a) : r \in {Text0, Text256}, a \in AlphaTexts}
    \cup {<<"r", "g", "b", "(", "1", ",", "2", ")">>,
          <<"r", "g", "b", "a", "(", "1", ",", "2", ",", "3", ")">>,
          <<"b", "l", "u", "e">>, <<>>}

Opacities == {0, 1}

InitColor ==
    /\ EngineNew
    /\ now = 0
    /\ cache = <<>>
    /\ \E color_str \in ColorTexts, opacity \in Opacities :
          harness = [pc |-> "color", color_str |-> color_str, opacity |-> opacity,
                     result |-> None]

ParseColor ==
    /\ harness.pc = "color"
    /\ harness' = [harness EXCEPT
            !.pc = "parsed",
            !.result = Some(parse_color(harness.color_str, harness.opacity))]
    /\ UNCHANGED <<now, cache, stats, cacheLock, statsLock, tmpfs, pc, local, returned>>

NextColor == ParseColor

SpecColor == InitColor /\ [][NextColor]_vars

\* the colour grammar: #RRGGBB, rgb(r,g,b) with three integers in 0..255,
\* rgba(r,g,b,a) with three such integers and a decimal a in 0..1
IsChannelText(s) ==
    /\ s # <<>>
    /\ \A i \in 1..Len(s) : IsIn(s[i], DecimalDigits)
    /\ DigitsValue(s, 10) <= U8Max

IsUnitText(s) == IsOk(ParseF32(s)) /\ ParseF32(s)[2] >= 0 /\ ParseF32(s)[2] <= 100

ArgumentsOf(s, name) ==
    LET split == Split(SubSeq(s, Len(name) + 1, Len(s) - 1), ",")
    IN [i \in 1..Len(split) |-> Trim(split[i])]

InColourGrammar(s) ==
    \/ /\ Len(s) = 7
       /\ s[1] = "#"
       /\ \A i \in 2..7 : IsDigit(s[i], 16)
    \/ /\ StartsWith(s, <<"r", "g", "b", "(">>) /\ EndsWith(s, <<")">>)
       /\ LET args == ArgumentsOf(s, <<"r", "g", "b", "(">>)
          IN Len(args) = 3 /\ \A i \in 1..3 : IsChannelText(args[i])
    \/ /\ StartsWith(s, <<"r", "g", "b", "a", "(">>) /\ EndsWith(s, <<")">>)
       /\ LET args == ArgumentsOf(s, <<"r", "g", "b", "a", "(">>)
          IN /\ Len(args) = 4
             /\ \A i \in 1..3 : IsChannelText(args[i])
             /\ IsUnitText(args[4])

\* C19: colour grammar is exact -- parse_color succeeds on a text exactly
\* when the text is #RRGGBB, rgb(r,g,b) with integers in 0..255 or
\* rgba(r,g,b,a) with such integers and a in 0..1; every other text fails.
C19_ColourGrammarExact ==
    harness.pc = "parsed"
        => (IsOk(harness.result[1]) <=> InColourGrammar(harness.color_str))

-----------------------------------------------------------------------------
(* generate_overlay_text on every combination of display toggles: SpecText *)

\* [String]::join(sep): a line is the sequence of the pieces it was
\* formatted from, the joined text the sequence of all pieces and separators
RECURSIVE Join(_, _)
Join(lines, sep) ==
    IF lines = <<>> THEN <<>>
    ELSE IF Len(lines) = 1 THEN lines[1]
    ELSE lines[1] \o <<sep>> \o Join(Tail(lines), sep)

\* the String generate_overlay_text returns: lines.join("\n")
generate_overlay_text(metadata, display_items) ==
    Join(GenerateOverlayText(metadata, display_items), "\n")

SomeLocation == Some([latitude |-> 48, longitude |-> 2, address |-> Some("Paris")])

\* a record with a focal length and a location and nothing else
MetaLocationOnly ==
    [make |-> None, model |-> None, aperture |-> None, shutter_speed |-> None,
     iso |-> None, focal_length |-> Some("35mm"), timestamp |-> None,
     location |-> SomeLocation]

\* a complete record
MetaSony ==
    [make |-> Some("Sony"), model |-> Some("A7"), aperture |-> Some("f/4"),
     shutter_speed |-> Some("1/60"), iso |-> Some(800),
     focal_length |-> Some("85mm"), timestamp |-> Some("2023:05:05 08:00:00"),
     location |-> SomeLocation]

TextMetas == {MetaCanon, MetaNikon, MetaLocationOnly, MetaSony}

AllDisplayItems ==
    [brand : BOOLEAN, model : BOOLEAN, aperture : BOOLEAN, shutter_speed : BOOLEAN,
     iso : BOOLEAN, timestamp : BOOLEAN, location : BOOLEAN, brand_logo : BOOLEAN]

InitText ==
    /\ EngineNew
    /\ now = 0
    /\ cache = <<>>
    /\ \E metadata \in TextMetas, display_items \in AllDisplayItems :
          harness = [pc |-> "metadata", metadata |-> metadata,
                     display_items |-> display_items, overlay_text |-> <<>>]

GenerateOverlayTextCall ==
    /\ harness.pc = "metadata"
    /\ harness' = [harness EXCEPT
            !.pc = "text",
            !.overlay_text = generate_overlay_text(harness.metadata, harness.display_items)]
    /\ UNCHANGED <<now, cache, stats, cacheLock, statsLock, tmpfs, pc, local, returned>>

NextText == GenerateOverlayTextCall

SpecText == InitText /\ [][NextText]_vars

\* the six projected fields in their fixed order: toggle, value, prefix
ProjectedFields(metadata, display_items) ==
    <<<<display_items.brand, metadata.make, <<>>>>,
      <<display_items.model, metadata.model, <<>>>>,
      <<display_items.aperture, metadata.aperture, <<>>>>,
      <<display_items.shutter_speed, metadata.shutter_speed, <<>>>>,
      <<display_items.iso, metadata.iso, <<"ISO ">>>>,
      <<display_items.timestamp, metadata.timestamp, <<>>>>>>

\* the lines the claim expects: the fields toggled on and present
ExpectedLines(metadata, display_items) ==
    LET shown == SelectSeq(ProjectedFields(metadata, display_items),
                           LAMBDA f : f[1] /\ IsSome(f[2]))
    IN [i \in 1..Len(shown) |-> shown[i][3] \o <<shown[i][2][1]>>]

\* the pieces of a text, printed, so that texts of any pieces compare
Printed(text) == [i \in 1..Len(text) |-> ToString(text[i])]

\* position of the first piece of line k in the joined text
RECURSIVE LineStart(_, _)
LineStart(lines, k) ==
    IF k = 1 THEN 1 ELSE LineStart(lines, k - 1) + Len(lines[k - 1]) + 1

\* text is the lines joined by single line breaks
IsNewlineJoined(text, lines) ==
    IF lines = <<>> THEN text = <<>>
    ELSE /\ Len(text) = LineStart(lines, Len(lines)) + Len(lines[Len(lines)]) - 1
         /\ \A k \in 1..Len(lines) :
               /\ Printed(SubSeq(text, LineStart(lines, k),
                                 LineStart(lines, k) + Len(lines[k]) - 1))
                    = Printed(lines[k])
               /\ k > 1 => text[LineStart(lines, k) - 1] = "\n"

\* C15: overlay text projection -- generate_overlay_text returns the
\* newline-joined list of exactly the fields among make, model, aperture,
\* shutter speed, "ISO {n}", timestamp whose toggle is on and whose value
\* is present, in that order; location, brand_logo and the focal length
\* contribute nothing.
C15_OverlayTextProjection ==
    harness.pc = "text"
        => IsNewlineJoined(harness.overlay_text,
                           ExpectedLines(harness.metadata, harness.display_items))

\* a text of several lines with a field left out by its toggle and the
\* location and brand_logo toggles on
C15_Witness ==
    /\ harness.pc = "text"
    /\ harness.metadata = MetaSony
    /\ harness.display_items.location /\ harness.display_items.brand_logo
    /\ ~harness.display_items.model
    /\ harness.display_items.brand /\ harness.display_items.iso
    /\ Len(harness.overlay_text) >= 4

-----------------------------------------------------------------------------
(* image_processing.rs: images and pixels.  An image is its size, the       *)
(* colour type of its buffer, what the buffer was made from (a decoded      *)
(* file or a filled canvas) and the drawing calls made on it since, in      *)
(* order; PixelAt computes a pixel from that.  A pixel is the tuple of its  *)
(* channels.                                                                *)

U16Max == 65535

\* the image files behind the input paths: colour type and size
ImageColor(p) ==
    IF p % 7 = 0 THEN "Rgb16" ELSE IF p % 5 = 0 THEN "Rgba8" ELSE "Rgb8"

ImageWidth(p) ==
    IF p = 1 THEN 1000 ELSE IF p % 7 = 0 THEN 2 ELSE IF p % 5 = 0 THEN 3
    ELSE IF p = 4 THEN 4 ELSE 40

ImageHeight(p) ==
    IF p = 1 THEN 800 ELSE IF p % 7 = 0 THEN 2 ELSE IF p % 5 = 0 THEN 2
    ELSE IF p = 4 THEN 3 ELSE 30

\* the pixel the decoder yields at (x, y) of file p, in the file's colour
\* type; the files with an alpha channel have pixels of every opacity
SourcePixel(p, x, y) ==
    CASE ImageColor(p) = "Rgb8" -> <<(7 * x + p) % 256, (5 * y) % 256, 200>>
      [] ImageColor(p) = "Rgba8" ->
           <<(7 * x + p) % 256, (5 * y) % 256, 200,
             CASE (x + y) % 3 = 0 -> 255 [] (x + y) % 3 = 1 -> 128 [] OTHER -> 0>>
      [] ImageColor(p) = "Rgb16" -> <<300 + x, U16Max, 257 * y>>

\* image::open(path) of a decodable file
Decode(p) ==
    [width |-> ImageWidth(p), height |-> ImageHeight(p), color |-> ImageColor(p),
     content |-> <<"file", p>>, layers |-> <<>>]

\* the channel conversion of the image crate from 16 to 8 bits
U16ToU8(c) == (c + 128) \div 257

\* one pixel converted to Rgba<u8>
PixelToRgba8(pixel, color) ==
    CASE color = "Rgba8" -> pixel
      [] color = "Rgb8" -> <<pixel[1], pixel[2], pixel[3], U8Max>>
      [] color = "Rgb16" ->
           <<U16ToU8(pixel[1]), U16ToU8(pixel[2]), U16ToU8(pixel[3]), U8Max>>

\* DynamicImage::to_rgba8: the same image in an Rgba<u8> buffer
to_rgba8(img) == [img EXCEPT !.color = "Rgba8"]

\* Pixel::blend of Rgba<u8> as imageops::overlay uses it: a transparent
\* pixel leaves the one below, an opaque one replaces it, any other is mixed
Blend(bottom, top) ==
    IF top[4] = 0 THEN bottom
    ELSE IF top[4] = U8Max THEN top
    ELSE LET alpha == U8Max * (bottom[4] + top[4]) - bottom[4] * top[4]
             mix(i) == (top[i] * top[4] * U8Max + bottom[i] * bottom[4] * (U8Max - top[4]))
                         \div alpha
         IN <<mix(1), mix(2), mix(3), alpha \div U8Max>>

Inside(x, y, left, top, width, height) ==
    /\ x >= left /\ x < left + width
    /\ y >= top /\ y < top + height

\* the pixel at (x, y) after the first n drawing calls on the image
RECURSIVE PixelAfter(_, _, _, _)
PixelAfter(img, x, y, n) ==
    IF n = 0
    THEN IF img.content[1] = "file"
         THEN LET p == img.content[2]
              IN IF img.color = ImageColor(p) THEN SourcePixel(p, x, y)
                 ELSE PixelToRgba8(SourcePixel(p, x, y), ImageColor(p))
         ELSE IF img.content[1] = "resized"
         THEN <<"resampled", img.content[2], x, y>>
         ELSE img.content[2]
    ELSE LET layer == img.layers[n]
             below == PixelAfter(img, x, y, n - 1)
         IN CASE layer[1] = "rect" ->
                   IF Inside(x, y, layer[2], layer[3], layer[4], layer[5])
                   THEN layer[6] ELSE below
              [] layer[1] = "image" ->
                   IF Inside(x, y, layer[2], layer[3], layer[4].width, layer[4].height)
                   THEN Blend(below, PixelAfter(layer[4], x - layer[2], y - layer[3],
                                                Len(layer[4].layers)))
                   ELSE below
              [] layer[1] = "text" ->
                   IF Inside(x, y, layer[2], layer[3], layer[4], layer[5])
                   THEN <<"glyph", below, layer[6]>> ELSE below

PixelAt(img, x, y) == PixelAfter(img, x, y, Len(img.layers))

\* `x as u32` of a whole f32 below 2^31: a negative value gives 0
AsU32(x) == IF x < 0 THEN 0 ELSE x

\* RgbaImage::new: every pixel transparent black
NewCanvas(width, height) ==
    [width |-> width, height |-> height, color |-> "Rgba8",
     content |-> <<"canvas", Rgba(0, 0, 0, 0)>>, layers |-> <<>>]

\* for pixel in canvas.pixels_mut() { *pixel = color }
FillCanvas(canvas, color) == [canvas EXCEPT !.content = <<"canvas", color>>]

draw_shadow_frame(canvas, frame_width, color) == FillCanvas(canvas, color)
draw_film_frame(canvas, frame_width, color) == FillCanvas(canvas, color)
draw_polaroid_frame(canvas, frame_width, color) == FillCanvas(canvas, color)
draw_vintage_frame(canvas, frame_width, color) == FillCanvas(canvas, color)

FrameStyles == {"Simple", "Shadow", "Film", "Polaroid", "Vintage"}

\* image::imageops::overlay(&mut canvas, &top, x, y)
ImageopsOverlay(canvas, top, x, y) ==
    [canvas EXCEPT !.layers = Append(@, <<"image", x, y, top>>)]

\* apply_frame(img, frame_settings), lines 158-201
apply_frame(img, frame_settings) ==
    LET frame_width == AsU32(frame_settings.width)
        new_width == img.width + 2 * frame_width
        new_height == img.height + 2 * frame_width
        canvas == NewCanvas(new_width, new_height)
        frame_color == parse_color(frame_settings.color, frame_settings.opacity)
    IN IF ~IsOk(frame_color) THEN frame_color
       ELSE LET drawn ==
                  CASE frame_settings.style = "Simple" -> FillCanvas(canvas, frame_color[2])
                    [] frame_settings.style = "Shadow" ->
                         draw_shadow_frame(canvas, frame_width, frame_color[2])
                    [] frame_settings.style = "Film" ->
                         draw_film_frame(canvas, frame_width, frame_color[2])
                    [] frame_settings.style = "Polaroid" ->
                         draw_polaroid_frame(canvas, frame_width, frame_color[2])
                    [] frame_settings.style = "Vintage" ->
                         draw_vintage_frame(canvas, frame_width, frame_color[2])
            IN <<"Ok", ImageopsOverlay(drawn, to_rgba8(img), frame_width, frame_width)>>

\* lines 37-39: the frame step of a render, skipped when not enabled
FrameStep(img, frame_settings) ==
    IF frame_settings.enabled THEN apply_frame(img, frame_settings) ELSE <<"Ok", img>>

-----------------------------------------------------------------------------
(* apply_frame on small images, every style: SpecFrame *)

MaxFrameWidth == 2      \* frame widths 0..MaxFrameWidth

ColorWhite == <<"#", "F", "F", "F", "F", "F", "F">>
ColorBlack == <<"#", "0", "0", "0", "0", "0", "0">>
ColorRed == <<"r", "g", "b", "(", "2", "5", "5", ",", "0", ",", "0", ")">>

FrameColors == {ColorWhite, ColorRed}

\* the images handed to the frame step: apply_overlay returned them, so
\* their buffer is Rgba<u8>; file 4 is opaque, file 5 has an alpha channel
FramePaths == {4, 5}
FrameImages == {to_rgba8(Decode(p)) : p \in FramePaths}

AllFrameSettings ==
    [enabled : BOOLEAN, style : FrameStyles, color : FrameColors,
     width : 0..MaxFrameWidth, opacity : Opacities, custom_properties : {None}]

InitFrame ==
    /\ EngineNew
    /\ now = 0
    /\ cache = <<>>
    /\ \E img \in FrameImages, frame_settings \in AllFrameSettings :
          harness = [pc |-> "image", img |-> img, frame_settings |-> frame_settings,
                     framed |-> None, by_style |-> <<>>]

\* the frame step with the settings, and with each of the five styles
ApplyFrameCall ==
    /\ harness.pc = "image"
    /\ harness' = [harness EXCEPT
            !.pc = "framed",
            !.framed = Some(FrameStep(harness.img, harness.frame_settings)),
            !.by_style = [style \in FrameStyles |->
                            apply_frame(harness.img,
                                [harness.frame_settings EXCEPT !.style = style])]]
    /\ UNCHANGED <<now, cache, stats, cacheLock, statsLock, tmpfs, pc, local, returned>>

NextFrame == ApplyFrameCall

SpecFrame == InitFrame /\ [][NextFrame]_vars

Columns(img) == 0..(img.width - 1)
Rows(img) == 0..(img.height - 1)

\* the two images have the same size and the same pixel everywhere
SamePixels(a, b) ==
    /\ a.width = b.width /\ a.height = b.height
    /\ \A x \in Columns(a), y \in Rows(a) : PixelAt(a, x, y) = PixelAt(b, x, y)

\* C17: frame geometry -- an enabled frame of width f turns an image of size
\* (w, h) into a canvas of size (w + 2f, h + 2f) that shows the original
\* image, unchanged, in the rectangle with top-left (f, f); a frame that is
\* not enabled leaves size and pixels as they were.
C17_FrameGeometry ==
    (harness.pc = "framed" /\ IsOk(harness.framed[1]))
        => LET img == harness.img
               out == harness.framed[1][2]
               f == harness.frame_settings.width
           IN IF harness.frame_settings.enabled
              THEN /\ out.width = img.width + 2 * f
                   /\ out.height = img.height + 2 * f
                   /\ \A x \in Columns(img), y \in Rows(img) :
                         PixelAt(out, x + f, y + f) = PixelAt(img, x, y)
              ELSE SamePixels(out, img)

\* C18: distinct frame styles -- for the same image, colour, width above 0
\* and opacity, the outputs of apply_frame for the five styles differ
\* pairwise in some pixel.
C18_DistinctFrameStyles ==
    (harness.pc = "framed" /\ harness.frame_settings.width > 0)
        => \A s, t \in FrameStyles :
              (s # t /\ IsOk(harness.by_style[s]) /\ IsOk(harness.by_style[t]))
                 => ~SamePixels(harness.by_style[s][2], harness.by_style[t][2])

-----------------------------------------------------------------------------
(* image_processing.rs: apply_overlay and what it calls.  A u32 is kept as  *)
(* the i32 that has its bits, so a difference that wrapped below zero is a  *)
(* negative number and `as i32` changes nothing.  A call can end in Ok,     *)
(* Err or, in a build with overflow checks, a panic.                        *)

Builds == {"debug", "release"}

SystemFontPaths ==
    <<"/usr/share/fonts/truetype/dejavu/DejaVuSans.ttf",
      "/usr/share/fonts/TTF/DejaVuSans.ttf",
      "/System/Library/Fonts/Arial.ttf",
      "/usr/share/fonts/truetype/liberation/LiberationSans-Regular.ttf">>

\* what can be loaded on this machine: the embedded bytes, system files
FontsEmbedded == [embedded |-> TRUE, system |-> {}]
FontsSystemOnly == [embedded |-> FALSE, system |-> {SystemFontPaths[4]}]
FontsNone == [embedded |-> FALSE, system |-> {}]
FontEnvironments == {FontsEmbedded, FontsSystemOnly, FontsNone}

\* load_font, lines 278-309: the embedded font, then the first system file
\* that reads and parses
load_font(fonts) ==
    IF fonts.embedded THEN <<"Ok", "embedded">>
    ELSE IF \E i \in 1..Len(SystemFontPaths) : SystemFontPaths[i] \in fonts.system
    THEN <<"Ok", SystemFontPaths[CHOOSE i \in 1..Len(SystemFontPaths) :
                    /\ SystemFontPaths[i] \in fonts.system
                    /\ \A j \in 1..(i - 1) : SystemFontPaths[j] \notin fonts.system]>>
    ELSE <<"Err", <<"Failed to load any font">>>>

\* the advance width of a glyph at a scale; a piece of text is laid out as
\* one glyph
AdvanceWidth(font, scale) == scale \div 2

\* calculate_text_width, lines 388-398: from the first glyph to the end of
\* the last one, all glyphs on one line
calculate_text_width(font, scale, text) ==
    IF text = <<>> THEN 0 ELSE Len(text) * AdvanceWidth(font, scale)

\* a < b as u32
LessU32(a, b) == IF (a < 0) = (b < 0) THEN a < b ELSE b < 0

\* a - b in u32: an overflow check panics, without the check it wraps
SubU32(a, b, build) ==
    IF a[1] # "Ok" THEN a
    ELSE IF LessU32(a[2], b) /\ build = "debug"
    THEN <<"Panic", <<"attempt to subtract with overflow">>>>
    ELSE <<"Ok", a[2] - b>>

\* calculate_overlay_position, lines 368-385
calculate_overlay_position(position, img_width, img_height, text_width, text_height, padding, build) ==
    LET right == SubU32(SubU32(<<"Ok", img_width>>, text_width, build), padding, build)
        bottom == SubU32(SubU32(<<"Ok", img_height>>, text_height, build), padding, build)
    IN CASE position = "TopLeft" -> <<"Ok", <<padding, padding>>>>
         [] position = "TopRight" ->
              IF right[1] = "Ok" THEN <<"Ok", <<right[2], padding>>>> ELSE right
         [] position = "BottomLeft" ->
              IF bottom[1] = "Ok" THEN <<"Ok", <<padding, bottom[2]>>>> ELSE bottom
         [] position = "BottomRight" ->
              IF right[1] # "Ok" THEN right
              ELSE IF bottom[1] # "Ok" THEN bottom
              ELSE <<"Ok", <<right[2], bottom[2]>>>>

\* draw_filled_rect_mut(img, Rect::at(x, y).of_size(width, height), color)
DrawFilledRect(img, x, y, width, height, color) ==
    [img EXCEPT !.layers = Append(@, <<"rect", x, y, width, height, color>>)]

\* draw_text_mut(img, color, x, y, scale, font, text)
DrawText(img, color, x, y, scale, font, text) ==
    [img EXCEPT !.layers =
        Append(@, <<"text", x, y, calculate_text_width(font, scale, text), scale,
                    color, text>>)]

\* lines 219-266: the branch of apply_overlay with a font
RenderText(img_rgba, overlay_settings, overlay_text, font, build) ==
    LET scale == overlay_settings.font.size
        font_color == parse_color(overlay_settings.font.color, 1)
        text_width == calculate_text_width(font, scale, overlay_text)
        text_height == AsU32(overlay_settings.font.size)
        padding == AsU32(overlay_settings.background.padding)
        origin == calculate_overlay_position(overlay_settings.position,
                      img_rgba.width, img_rgba.height, text_width, text_height,
                      padding, build)
        bg_color == parse_color(overlay_settings.background.color,
                                overlay_settings.background.opacity)
        with_panel ==
            IF overlay_settings.background.opacity > 0
            THEN DrawFilledRect(img_rgba, origin[2][1], origin[2][2],
                                text_width + 2 * padding, text_height + 2 * padding,
                                bg_color[2])
            ELSE img_rgba
    IN IF ~IsOk(font_color) THEN font_color
       ELSE IF origin[1] # "Ok" THEN origin
       ELSE IF overlay_settings.background.opacity > 0 /\ ~IsOk(bg_color) THEN bg_color
       ELSE IF /\ overlay_settings.background.opacity > 0
               /\ (text_width + 2 * padding = 0 \/ text_height + 2 * padding = 0)
       THEN <<"Panic", <<"Rect::of_size: width and height must be positive">>>>
       ELSE <<"Ok", DrawText(with_panel, font_color[2], origin[2][1] + padding,
                             origin[2][2] + padding, scale, font, overlay_text)>>

\* apply_overlay, lines 204-275
apply_overlay(img, metadata, overlay_settings, fonts, build) ==
    LET img_rgba == to_rgba8(img)
        overlay_text == generate_overlay_text(metadata, overlay_settings.display_items)
        font == load_font(fonts)
    IN IF overlay_text = <<>> THEN <<"Ok", img_rgba>>
       ELSE IF IsOk(font)
       THEN RenderText(img_rgba, overlay_settings, overlay_text, font[2], build)
       ELSE <<"Ok", img_rgba>>

-----------------------------------------------------------------------------
(* apply_overlay on decoded files: SpecOverlay *)

DisplayNone ==
    [brand |-> FALSE, model |-> FALSE, aperture |-> FALSE, shutter_speed |-> FALSE,
     iso |-> FALSE, timestamp |-> FALSE, location |-> TRUE, brand_logo |-> TRUE]

OverlayPositions == {"TopLeft", "TopRight", "BottomLeft", "BottomRight"}

\* overlay settings with the colours as texts parse_color reads; one font
\* colour is not a colour
ColorBlue == <<"b", "l", "u", "e">>

OverlaySettingsOf(position, display_items, font_color, opacity) ==
    [OverlayDefault EXCEPT !.position = position,
                           !.display_items = display_items,
                           !.font.color = font_color,
                           !.background.color = ColorBlack,
                           !.background.opacity = opacity]

AllOverlaySettings ==
    {OverlaySettingsOf(position, display_items, font_color, opacity) :
        position \in OverlayPositions, display_items \in {DisplayAll, DisplayNone},
        font_color \in {ColorWhite, ColorBlue}, opacity \in Opacities}

\* a large photograph, a small opaque image, a small image with an alpha
\* channel, a small image of 16 bits a channel
OverlayPaths == {1, 4, 5, 7}

InitOverlay ==
    /\ EngineNew
    /\ now = 0
    /\ cache = <<>>
    /\ \E p \in OverlayPaths, metadata \in {MetaCanon, MetaLocationOnly},
          overlay_settings \in AllOverlaySettings, fonts \in FontEnvironments,
          build \in Builds :
          harness = [pc |-> "decoded", img |-> Decode(p), metadata |-> metadata,
                     overlay_settings |-> overlay_settings, fonts |-> fonts,
                     build |-> build, overlaid |-> None]

ApplyOverlayCall ==
    /\ harness.pc = "decoded"
    /\ harness' = [harness EXCEPT
            !.pc = "overlaid",
            !.overlaid = Some(apply_overlay(harness.img, harness.metadata,
                                            harness.overlay_settings, harness.fonts,
                                            harness.build))]
    /\ UNCHANGED <<now, cache, stats, cacheLock, statsLock, tmpfs, pc, local, returned>>

NextOverlay == ApplyOverlayCall

SpecOverlay == InitOverlay /\ [][NextOverlay]_vars

\* a pixel of any colour type as 16-bit RGBA, the common ground on which
\* pixels of two buffers are compared
PixelValue(pixel, color) ==
    CASE color = "Rgba8" -> <<257 * pixel[1], 257 * pixel[2], 257 * pixel[3], 257 * pixel[4]>>
      [] color = "Rgb8" -> <<257 * pixel[1], 257 * pixel[2], 257 * pixel[3], U16Max>>
      [] color = "Rgb16" -> <<pixel[1], pixel[2], pixel[3], U16Max>>

\* image a shows at every position the pixel value image b shows
PixelIdentical(a, b) ==
    /\ a.width = b.width /\ a.height = b.height
    /\ \A x \in 0..(IF a.width > 4 THEN 4 ELSE a.width - 1),
          y \in 0..(IF a.height > 4 THEN 4 ELSE a.height - 1) :
          PixelValue(PixelAt(a, x, y), a.color) = PixelValue(PixelAt(b, x, y), b.color)

\* C16: empty overlay is a no-op -- when the projected text is empty,
\* apply_overlay succeeds whatever the colours and fonts are, draws nothing
\* and returns an image pixel-identical to its input.
C16_EmptyOverlayNoOp ==
    (/\ harness.pc = "overlaid"
     /\ generate_overlay_text(harness.metadata,
                              harness.overlay_settings.display_items) = <<>>)
        => /\ IsOk(harness.overlaid[1])
           /\ harness.overlaid[1][2].layers = <<>>
           /\ PixelIdentical(harness.overlaid[1][2], harness.img)

\* C20: graceful font degradation -- when no font can be loaded,
\* apply_overlay succeeds and returns the image without text, its pixels
\* equal to the input's.
C20_FontDegradation ==
    (harness.pc = "overlaid" /\ ~IsOk(load_font(harness.fonts)))
        => /\ IsOk(harness.overlaid[1])
           /\ harness.overlaid[1][2].layers = <<>>
           /\ PixelIdentical(harness.overlaid[1][2], harness.img)

-----------------------------------------------------------------------------
(* image_processing.rs: batch_process_images, process_image, save_image and *)
(* generate_preview, step by step: SpecRender                               *)

MaxBatch == 2       \* the batch lists have at most MaxBatch paths

\* the file at the path exists (File::open, fs::metadata)
FileExists(p) == p % 6 # 0

\* ExifService::extract_metadata(path)
ExtractMetadata(p) ==
    IF ~FileExists(p) THEN <<"Err", <<"Failed to open file">>>>
    ELSE IF ~HasExif(p) THEN <<"Err", <<"Failed to read EXIF data">>>>
    ELSE <<"Ok", ExifOf(p)>>

\* DynamicImage::resize(nwidth, nheight, Lanczos3): the largest size of the
\* same aspect ratio inside the bounds, resampled
RoundDiv(a, b) == (2 * a + b) \div (2 * b)

Resize(img, nwidth, nheight) ==
    LET by_width == nwidth * img.height <= nheight * img.width
        width == IF by_width THEN nwidth ELSE RoundDiv(img.width * nheight, img.height)
        height == IF by_width THEN RoundDiv(img.height * nwidth, img.width) ELSE nheight
    IN [img EXCEPT !.width = Max(width, 1), !.height = Max(height, 1),
                   !.content = <<"resized", img.content[2]>>]

\* the encoders: the bytes stand for the image they were encoded from
EncodeJpeg(img, quality) == <<"jpeg", quality, img>>
EncodePng(img) == <<"png", img>>

\* lines 77-82: the output path of a batch item
OutputPathOf(input_path, output_format) ==
    <<"output_dir", input_path, IF output_format = "Jpeg" THEN "jpg" ELSE "png">>

\* save_image, lines 466-470: the format the extension selects
FormatOf(output_path) == IF output_path[3] = "png" THEN "Png" ELSE "Jpeg"

OverlayTopLeft == OverlaySettingsOf("TopLeft", DisplayAll, ColorWhite, 1)
OverlayBottomRight == OverlaySettingsOf("BottomRight", DisplayAll, ColorWhite, 1)
OverlayBadColor == OverlaySettingsOf("TopLeft", DisplayAll, ColorBlue, 1)

FrameWhite ==
    [enabled |-> TRUE, style |-> "Simple", color |-> ColorWhite, width |-> 2,
     opacity |-> 1, custom_properties |-> None]
FrameOff == [FrameWhite EXCEPT !.enabled = FALSE]

AllProcessingSettings ==
    [overlay_settings : {OverlayTopLeft, OverlayBottomRight, OverlayBadColor},
     frame_settings : {FrameWhite, FrameOff},
     output_format : {"Jpeg", "Png"}, quality : {90}]

\* a photograph, a file without EXIF data, a file that is no image, a small
\* image
BatchPaths == {1, 2, 3, 5}

BatchLists == UNION {[1..n -> BatchPaths] : n \in 0..MaxBatch}

RenderStart(op, image_paths, settings, fonts, build) ==
    [op |-> op, pc |-> IF op = "batch" THEN "batch_loop" ELSE "preview_open",
     image_paths |-> image_paths, settings |-> settings, fonts |-> fonts,
     build |-> build, i |-> 0, input_path |-> 0, output_path |-> None,
     metadata |-> None, img |-> None, buffer |-> None, steps |-> <<>>,
     files |-> <<>>, successful |-> <<>>, failed |-> <<>>, result |-> None]

InitRender ==
    /\ EngineNew
    /\ now = 0
    /\ cache = <<>>
    /\ \E settings \in AllProcessingSettings, build \in Builds,
          fonts \in {FontsEmbedded, FontsNone} :
          \/ \E image_paths \in BatchLists :
                harness = RenderStart("batch", image_paths, settings, fonts, build)
          \/ \E p \in BatchPaths :
                harness = RenderStart("preview", <<p>>, settings, fonts, build)

EngineUnchanged ==
    UNCHANGED <<now, cache, stats, cacheLock, statsLock, tmpfs, pc, local, returned>>

\* lines 70-82: the next item of the list
BatchNextItem ==
    /\ harness.pc = "batch_loop"
    /\ harness.i < Len(harness.image_paths)
    /\ LET input_path == harness.image_paths[harness.i + 1]
       IN harness' = [harness EXCEPT
             !.pc = "extract_metadata", !.i = @ + 1, !.input_path = input_path,
             !.output_path = Some(OutputPathOf(input_path, harness.settings.output_format)),
             !.metadata = None, !.img = None, !.buffer = None, !.steps = <<>>]
    /\ EngineUnchanged

\* lines 112-119: the list is exhausted
BatchReturn ==
    /\ harness.pc = "batch_loop"
    /\ harness.i = Len(harness.image_paths)
    /\ harness' = [harness EXCEPT
          !.pc = "batch_done",
          !.result = Some([total_files |-> Len(harness.image_paths),
                           successful |-> harness.successful,
                           failed |-> harness.failed])]
    /\ EngineUnchanged

\* lines 85, 104-108
BatchExtractMetadata ==
    /\ harness.pc = "extract_metadata"
    /\ LET r == ExtractMetadata(harness.input_path)
       IN harness' =
            IF IsOk(r)
            THEN [harness EXCEPT !.pc = "process_image", !.metadata = Some(r[2])]
            ELSE [harness EXCEPT
                    !.pc = "batch_loop",
                    !.failed = Append(@, [file_path |-> harness.input_path,
                                          error_message |-> r[2],
                                          error_type |-> "ExifReadError"])]
    /\ EngineUnchanged

\* lines 97-101: process_image returned Err(e)
ProcessImageErr(e) ==
    [harness EXCEPT
        !.pc = "batch_loop",
        !.failed = Append(@, [file_path |-> harness.input_path,
                              error_message |-> e,
                              error_type |-> "ImageProcessingError"])]

\* process_image lines 25-31: fs::metadata(input_path), image::open
ProcessImageOpen ==
    /\ harness.pc = "process_image"
    /\ harness' =
         IF ~FileExists(harness.input_path)
         THEN ProcessImageErr(<<"Failed to get metadata">>)
         ELSE IF ~Decodable(harness.input_path)
         THEN ProcessImageErr(<<"Failed to open image">>)
         ELSE [harness EXCEPT !.pc = "apply_overlay",
                              !.img = Some(Decode(harness.input_path)),
                              !.steps = Append(@, "decode")]
    /\ EngineUnchanged

\* the step after the overlay with the frame applied whatever the settings
StepAfterOverlayAlwaysFrame(frame_settings) == "apply_frame"

\* lines 37-39: the frame step is taken when the frame is enabled
StepAfterOverlay(frame_settings) ==
    IF frame_settings.enabled THEN "apply_frame" ELSE "save_image"

\* process_image line 34: the ? on the result of apply_overlay
AfterApplyOverlay(r) ==
    CASE r[1] = "Ok" ->
           [harness EXCEPT
              !.pc = StepAfterOverlay(harness.settings.frame_settings),
              !.img = Some(r[2]), !.steps = Append(@, "overlay")]
      [] r[1] = "Err" -> ProcessImageErr(r[2])
      [] r[1] = "Panic" -> [harness EXCEPT !.pc = "panicked"]

\* process_image line 38: the ? on the result of apply_frame
AfterApplyFrame(r) ==
    IF IsOk(r)
    THEN [harness EXCEPT !.pc = "save_image", !.img = Some(r[2]),
                         !.steps = Append(@, "frame")]
    ELSE ProcessImageErr(r[2])

\* save_image lines 473-476: the JPEG is encoded into a buffer first
SaveImageEncodeJpeg ==
    /\ harness.pc = "save_image"
    /\ FormatOf(harness.output_path[1]) = "Jpeg"
    /\ \E encode_ok \in BOOLEAN :
         harness' =
            IF encode_ok
            THEN [harness EXCEPT
                    !.pc = "create_output",
                    !.buffer = Some(EncodeJpeg(harness.img[1], harness.settings.quality)),
                    !.steps = Append(@, "encode")]
            ELSE ProcessImageErr(<<"Failed to encode JPEG image">>)
    /\ EngineUnchanged

\* std::fs::write (line 477) and save_with_format (line 480) begin with
\* File::create: the file exists, empty, from here on
SaveImageCreate ==
    /\ \/ harness.pc = "create_output"
       \/ harness.pc = "save_image" /\ FormatOf(harness.output_path[1]) = "Png"
    /\ \E create_ok \in BOOLEAN :
         harness' =
            IF create_ok
            THEN [harness EXCEPT
                    !.pc = "write_output",
                    !.files = Insert(@, harness.output_path[1],
                                     [complete |-> FALSE, data |-> <<>>])]
            ELSE ProcessImageErr(<<"Failed to write image">>)
    /\ EngineUnchanged

\* the bytes are written (the PNG is encoded while it is written); a fault
\* on the way leaves the file as far as it got
SaveImageWrite ==
    /\ harness.pc = "write_output"
    /\ LET png == FormatOf(harness.output_path[1]) = "Png"
           data == IF png THEN EncodePng(harness.img[1]) ELSE harness.buffer[1]
       IN \E write_ok \in BOOLEAN :
            harness' =
               IF write_ok
               THEN [harness EXCEPT
                       !.pc = "stat_output",
                       !.files = Insert(@, harness.output_path[1],
                                        [complete |-> TRUE, data |-> data]),
                       !.steps = IF png THEN Append(@, "encode") ELSE @]
               ELSE [ProcessImageErr(<<"Failed to write image">>) EXCEPT
                       !.steps = IF png THEN Append(@, "encode") ELSE @]
    /\ EngineUnchanged

\* lines 45-57 and 96: fs::metadata(output_path), Ok(ProcessedImageInfo)
ProcessImageReturn ==
    /\ harness.pc = "stat_output"
    /\ harness' =
         IF harness.output_path[1] \in DOMAIN harness.files
         THEN [harness EXCEPT
                 !.pc = "batch_loop",
                 !.successful = Append(@, [input_path |-> harness.input_path,
                                           output_path |-> harness.output_path[1]])]
         ELSE ProcessImageErr(<<"Failed to get metadata">>)
    /\ EngineUnchanged

\* generate_preview returned Err(e)
PreviewErr(e) ==
    [harness EXCEPT !.pc = "preview_done", !.result = Some(<<"Err", e>>)]

\* generate_preview lines 128-136: image::open, resize
PreviewOpen ==
    /\ harness.pc = "preview_open"
    /\ LET p == harness.image_paths[1]
       IN harness' =
            IF ~FileExists(p) \/ ~Decodable(p)
            THEN PreviewErr(<<"Failed to open image">>)
            ELSE [harness EXCEPT
                    !.pc = "preview_extract", !.input_path = p,
                    !.img = Some(Resize(Decode(p), PreviewMaxWidth, PreviewMaxHeight)),
                    !.steps = Append(@, "decode")]
    /\ EngineUnchanged

\* line 139
PreviewExtractMetadata ==
    /\ harness.pc = "preview_extract"
    /\ LET r == ExtractMetadata(harness.input_path)
       IN harness' =
            IF IsOk(r)
            THEN [harness EXCEPT !.pc = "preview_overlay", !.metadata = Some(r[2])]
            ELSE PreviewErr(r[2])
    /\ EngineUnchanged

\* generate_preview line 142: the ? on the result of apply_overlay
PreviewAfterApplyOverlay(r) ==
    CASE r[1] = "Ok" ->
           [harness EXCEPT
              !.pc = IF StepAfterOverlay(harness.settings.frame_settings)
                          = "apply_frame"
                     THEN "preview_frame" ELSE "preview_encode",
              !.img = Some(r[2]), !.steps = Append(@, "overlay")]
      [] r[1] = "Err" -> PreviewErr(r[2])
      [] r[1] = "Panic" -> [harness EXCEPT !.pc = "panicked"]

\* generate_preview line 146: the ? on the result of apply_frame
PreviewAfterApplyFrame(r) ==
    IF IsOk(r)
    THEN [harness EXCEPT !.pc = "preview_encode", !.img = Some(r[2]),
                         !.steps = Append(@, "frame")]
    ELSE PreviewErr(r[2])


\* the caller's handling of the result: process_image's in a batch,
\* generate_preview's in a preview
AfterOverlayOf(r) ==
    IF harness.op = "batch" THEN AfterApplyOverlay(r) ELSE PreviewAfterApplyOverlay(r)

AfterFrameOf(r) ==
    IF harness.op = "batch" THEN AfterApplyFrame(r) ELSE PreviewAfterApplyFrame(r)

\* process_image line 34 and generate_preview line 142: apply_overlay on the
\* decoded image; a panic unwinds through the caller
ApplyOverlayStep ==
    /\ harness.pc \in {"apply_overlay", "preview_overlay"}
    /\ harness' = AfterOverlayOf(
          apply_overlay(harness.img[1], harness.metadata[1],
                        harness.settings.overlay_settings, harness.fonts,
                        harness.build))
    /\ EngineUnchanged

\* process_image line 38 and generate_preview line 146: apply_frame
ApplyFrameStep ==
    /\ harness.pc \in {"apply_frame", "preview_frame"}
    /\ harness' = AfterFrameOf(
          apply_frame(harness.img[1], harness.settings.frame_settings))
    /\ EngineUnchanged

\* lines 150-154: write_to a buffer as PNG
PreviewEncode ==
    /\ harness.pc = "preview_encode"
    /\ \E encode_ok \in BOOLEAN :
         harness' =
            IF encode_ok
            THEN [harness EXCEPT
                    !.pc = "preview_done",
                    !.result = Some(<<"Ok", EncodePng(harness.img[1])>>),
                    !.steps = Append(@, "encode")]
            ELSE PreviewErr(<<"Failed to encode preview image">>)
    /\ EngineUnchanged

NextRender ==
    \/ BatchNextItem
    \/ BatchReturn
    \/ BatchExtractMetadata
    \/ ProcessImageOpen
    \/ ApplyOverlayStep
    \/ ApplyFrameStep
    \/ SaveImageEncodeJpeg
    \/ SaveImageCreate
    \/ SaveImageWrite
    \/ ProcessImageReturn
    \/ PreviewOpen
    \/ PreviewExtractMetadata
    \/ PreviewEncode

SpecRender == InitRender /\ [][NextRender]_vars

\* the order of the steps of one render under the frame settings
StepOrder(frame_settings) ==
    <<"decode", "overlay">> \o (IF frame_settings.enabled THEN <<"frame">> ELSE <<>>)
        \o <<"encode">>

IsPrefixOf(s, t) == Len(s) <= Len(t) /\ \A k \in 1..Len(s) : s[k] = t[k]

\* the render of the current item or of the preview has produced its bytes
RenderEncoded ==
    \/ harness.pc \in {"create_output", "stat_output"}
    \/ harness.pc = "preview_done" /\ IsOk(harness.result[1])

\* C14: process_image and generate_preview take their steps in the order
\* decode, overlay compositing, frame compositing, encode: the steps taken so
\* far are always a beginning of that order, the frame step is in it exactly
\* when frame_settings.enabled, and a render that has encoded has taken every
\* step of the order (the overlay step among them).
C14_PipelineStepOrder ==
    /\ IsPrefixOf(harness.steps, StepOrder(harness.settings.frame_settings))
    /\ RenderEncoded => harness.steps = StepOrder(harness.settings.frame_settings)

C14_Witness ==
    /\ harness.op = "preview"
    /\ harness.pc = "preview_done"
    /\ IsOk(harness.result[1])
    /\ ~harness.settings.frame_settings.enabled
    /\ harness.steps = <<"decode", "overlay", "encode">>

\* C13: an observer of the output path sees no file or the completely
\* written file, never a truncated one; in particular a failed process_image
\* leaves no truncated file behind.
C13_AllOrNothingOutput ==
    \A output_path \in DOMAIN harness.files : harness.files[output_path].complete

\* the item fails at extraction; the item fails in process_image
FailsExtraction(p) == ~IsOk(ExtractMetadata(p))

\* the items of the list that carry the mark, in the order of the list
Picked(paths, marks, mark) ==
    LET idx == SelectSeq([k \in 1..Len(paths) |-> k], LAMBDA k : marks[k] = mark)
    IN [j \in 1..Len(idx) |-> paths[idx[j]]]

PathsOf(entries, field) == [k \in 1..Len(entries) |-> entries[k][field]]

\* C12: batch_process_images ends with a result that accounts for every
\* item of the list: total_files is the length of the list, every item is in
\* successful or in failed, in the order of the list, and a failed entry
\* carries its item's path and the category of the failing step
\* (ExifReadError for extraction, ImageProcessingError for the render).
C12_BatchIsolation ==
    harness.op = "batch" /\ harness.pc \in {"batch_done", "panicked"} =>
        /\ harness.pc = "batch_done"
        /\ LET r == harness.result[1]
           IN /\ r.total_files = Len(harness.image_paths)
              /\ Len(r.successful) + Len(r.failed) = r.total_files
              /\ \E marks \in [1..Len(harness.image_paths) -> {"successful", "failed"}] :
                    /\ Picked(harness.image_paths, marks, "failed")
                          = PathsOf(r.failed, "file_path")
                    /\ Picked(harness.image_paths, marks, "successful")
                          = PathsOf(r.successful, "input_path")
              /\ \A k \in 1..Len(r.failed) :
                    r.failed[k].error_type =
                        IF FailsExtraction(r.failed[k].file_path)
                        THEN "ExifReadError" ELSE "ImageProcessingError"

-----------------------------------------------------------------------------
(* Further properties of the engine, checked under Spec *)

\* the key a Preview request with the call's path and settings has
PreviewKeyOf(l) == [l.cache_key EXCEPT ![4] = DebugRequestType("Preview")]

\* the caller issued a Both request and the cache holds the entry of a
\* Preview request for the same path and settings
BothAfterPreview(c) ==
    /\ local[c].request_type = "Both"
    /\ PreviewKeyOf(local[c]) \in DOMAIN cache

\* C21 as stated: cross-variant reuse gap -- a Both request issued after a
\* Preview-only request for the same path and settings is answered from the
\* Preview request's cache entry (a hit without the full-quality half) and
\* runs no full-quality render.
C21_CrossVariantReuseGap ==
    \A c \in Callers :
        /\ (pc[c] = "get_from_cache_locked" /\ BothAfterPreview(c))
              => /\ IsSome(GetFromCache(cache, local[c].cache_key))
                 /\ ~IsSome(GetFromCache(cache, local[c].cache_key)[1].full_data)
        /\ BothAfterPreview(c) => ~InRender(c)

\* C21 amended: the request type is part of the cache key, so a call is only
\* ever answered from an entry that a request of its own type created: a Both
\* request after a Preview-only request misses unless a Both entry is there
\* too, and a Both hit always carries the full-quality bytes.
C21_NoCrossVariantReuse ==
    \A c \in Callers :
        /\ pc[c] = "get_from_cache_locked"
              => (IsSome(GetFromCache(cache, local[c].cache_key))
                    <=> \E k \in DOMAIN cache :
                          /\ k = local[c].cache_key
                          /\ k[4] = DebugRequestType(local[c].request_type))
        /\ pc[c] \in {"update_stats_hit", "update_stats_hit_locked"}
              => /\ local[c].cached[1].settings_hash[4]
                      = DebugRequestType(local[c].request_type)
                 /\ local[c].request_type = "Both"
                      => IsSome(local[c].cached[1].full_data)

\* a Both request is in its full-quality render while the cache holds the
\* Preview entry for the same path and settings
C21_Witness ==
    \E c \in Callers : BothAfterPreview(c) /\ pc[c] = "remove_output"

-----------------------------------------------------------------------------
(* calculate_overlay_position on sizes of images, texts and paddings:       *)
(* SpecAnchor                                                               *)

\* a photograph, a thumbnail and an icon; text boxes narrower and wider than
\* they are
AnchorImageSizes == {<<1000, 800>>, <<40, 30>>, <<3, 2>>}
AnchorTextSizes == {<<0, 20>>, <<100, 20>>, <<35, 40>>}
AnchorPaddings == {0, 10}

InitAnchor ==
    /\ EngineNew
    /\ now = 0
    /\ cache = <<>>
    /\ \E position \in OverlayPositions, img \in AnchorImageSizes,
          text \in AnchorTextSizes, padding \in AnchorPaddings, build \in Builds :
          harness = [pc |-> "sized", position |-> position,
                     img_width |-> img[1], img_height |-> img[2],
                     text_width |-> text[1], text_height |-> text[2],
                     padding |-> padding, build |-> build, origin |-> None]

\* apply_overlay lines 230-237: the call of calculate_overlay_position
CalculateOverlayPositionCall ==
    /\ harness.pc = "sized"
    /\ harness' = [harness EXCEPT
            !.pc = "positioned",
            !.origin = Some(calculate_overlay_position(
                          harness.position, harness.img_width, harness.img_height,
                          harness.text_width, harness.text_height, harness.padding,
                          harness.build))]
    /\ EngineUnchanged

NextAnchor == CalculateOverlayPositionCall

SpecAnchor == InitAnchor /\ [][NextAnchor]_vars

\* the inward offset from the far edge, clamped to zero
ClampedOffset(img_size, text_size, padding) == Max(img_size - text_size - padding, 0)

\* C22: anchor arithmetic never underflows -- calculate_overlay_position
\* returns without a panic; the coordinate on a near-edge side is the
\* padding, the coordinate on a far-edge side is image size - text size -
\* padding, and it is 0 when text size plus padding exceeds the image size,
\* never a value wrapped modulo 2^32.
C22_AnchorNeverUnderflows ==
    harness.pc = "positioned" =>
        /\ IsOk(harness.origin[1])
        /\ harness.origin[1][2][1] =
             IF harness.position \in {"TopLeft", "BottomLeft"} THEN harness.padding
             ELSE ClampedOffset(harness.img_width, harness.text_width, harness.padding)
        /\ harness.origin[1][2][2] =
             IF harness.position \in {"TopLeft", "TopRight"} THEN harness.padding
             ELSE ClampedOffset(harness.img_height, harness.text_height, harness.padding)

-----------------------------------------------------------------------------
(* Further properties of apply_overlay, checked under SpecOverlay *)

\* the number of lines of the overlay text of the call
LineCount == Len(GenerateOverlayText(harness.metadata, harness.overlay_settings.display_items))

\* the call drew the background panel and the text
PanelDrawn ==
    /\ harness.pc = "overlaid"
    /\ IsOk(harness.overlaid[1])
    /\ LineCount >= 1
    /\ IsOk(load_font(harness.fonts))
    /\ harness.overlay_settings.background.opacity > 0

\* C23: text box height counts lines -- for an overlay text of n >= 1 lines
\* at font size s the background panel is n * s + 2 * padding high, and a
\* bottom anchor puts its top edge at image height - n * s - padding.
C23_TextBoxHeightCountsLines ==
    PanelDrawn =>
        LET layers == harness.overlaid[1][2].layers
            text_height == LineCount * harness.overlay_settings.font.size
            padding == harness.overlay_settings.background.padding
        IN \E k \in 1..Len(layers) :
              /\ layers[k][1] = "rect"
              /\ layers[k][5] = text_height + 2 * padding
              /\ harness.overlay_settings.position \in {"BottomLeft", "BottomRight"}
                    => layers[k][3] = harness.img.height - text_height - padding

-----------------------------------------------------------------------------
(* Properties of the engine's use of its metadata argument, under Spec *)

\* the overlay text the call's metadata argument gives
SuppliedText(l) == GenerateOverlayText(l.metadata, l.overlay_settings.display_items)

\* C24: the engine consumes the caller's metadata record -- the overlay text
\* of every rendered output, preview or full quality, is the text of the
\* metadata argument of the call, and a preview render of a decodable file
\* does not fail, whatever an extraction from that file would give.
C24_EngineConsumesCallerMetadata ==
    [][\A c \in Callers :
         /\ IsSome(local'[c].preview_result)
               => local'[c].preview_result[1][2][4] = SuppliedText(local'[c])
         /\ IsSome(local'[c].encoded)
               => local'[c].encoded[1][4] = SuppliedText(local'[c])
         /\ (pc[c] = "process_preview" /\ pc'[c] = "done")
               => ~Decodable(local[c].input_path)]_vars

-----------------------------------------------------------------------------
(* Failing calls and the shared state of the engine, under Spec *)

\* the step is caller c's
StepOf(c) == pc'[c] # pc[c]

\* C25: failure leaves shared state unchanged -- from its cache miss to the
\* return of the error, a call whose render fails (Preview, FullQuality or
\* either half of Both) takes no step that inserts into or evicts from the
\* cache or changes cache_hits, cache_misses or total_processing_time, and
\* the failing step returns the error and not a result.
C25_FailureLeavesSharedState ==
    [][\A c \in Callers :
         /\ (StepOf(c) /\ (InRender(c) \/ pc[c] = "get_from_cache_locked"))
               => cache' = cache /\ stats' = stats
         /\ (StepOf(c) /\ InRender(c) /\ pc'[c] = "done")
               => returned' = returned]_vars

\* one call has returned a result and the other an error: the cache holds
\* the one entry and the statistics the one miss
C25_Witness ==
    /\ \A c \in Callers : pc[c] = "done"
    /\ returned = 1
    /\ Cardinality(DOMAIN cache) = 1
    /\ stats = [cache_hits |-> 0, cache_misses |-> 1,
                total_processing_time |-> stats.total_processing_time]

\* the caller's full-quality render has named its temporary file and has
\* not removed it yet
FullRenderInFlight(c) == pc[c] \in {"process_image", "read_output", "remove_output"}

\* C26: full-quality renders do not share their temporary file -- two
\* renders in flight never have the same temporary output path, the file a
\* render wrote is still there when the render reads it, and the bytes it
\* reads are the bytes it wrote.
C26_TemporaryFileNotShared ==
    /\ \A c, d \in Callers :
          (c # d /\ FullRenderInFlight(c) /\ FullRenderInFlight(d))
              => local[c].output_path # local[d].output_path
    /\ \A c \in Callers :
          /\ pc[c] = "read_output" => local[c].output_path[1] \in DOMAIN tmpfs
          /\ IsSome(local[c].full_data) => local[c].full_data = local[c].encoded

====
